---- MODULE Spec2Model ----
(***************************************************************************)
(* A model of the AutoClipper analysis pipeline:                           *)
(*   - server/src/services/analyzer.ts  (analyzeTranscript and its helpers)*)
(*   - server/src/routes/analyze.ts     (POST /api/analyze, POST /cancel)  *)
(*   - extension/client/js/modules/openrouter-client.js (validator, parser)*)
(*                                                                         *)
(* Times are whole seconds and scores are integers.  Only the fields of a  *)
(* clip that the pipeline computes with (startTime, endTime, viralScore)   *)
(* are kept; text, factors, title, hashtags and reasoning are copied       *)
(* through by the code and never read again.                               *)
(***************************************************************************)
EXTENDS Integers, Sequences, FiniteSets, TLC

VARIABLES
    \* ---- routes/analyze.ts: module state and one handler per request ----
    currentAnalysis,   \* the module-level AbortController (0 = null)
    aborted,           \* aborted[r]: signal.aborted of the controller made by r
    pc,                \* where the handler of request r stands
    wantsStream,       \* r asked for text/event-stream
    chunks,            \* chunks[r]: the chunks of r's transcript (startOffsets)
    chunkIdx,          \* the loop variable i of analyzeTranscript
    allClips,          \* the pool analyzeTranscript accumulates
    chatCalls,         \* the chunk indices chat() was issued for, in order
    chatResults,       \* what each finished chat() call did
    events,            \* the SSE events written to r's response
    reply,             \* the HTTP status and JSON body of r's response
    cancelReply,       \* the body of the last POST /cancel response
    progressLog,       \* per request: the percentages passed to onProgress
    \* ---- inputs and outputs of the pure functions ----
    op,                \* the function applied last ("none" before)
    pool,              \* a clip list handed to removeOverlaps / the ranking
    opts,              \* the analysis options
    overlapOut,        \* removeOverlaps(pool)
    finalClips,        \* what analyzeTranscript returns for pool
    clipIn,            \* one clip handed to isValidClip
    serverValid,       \* server isValidClip(clipIn, opts)
    clientValid,       \* OpenRouterClient.isValidClip(clipIn, opts)
    response,          \* the raw model text handed to parseClipsFromResponse
    timeOffset,        \* the chunk offset handed to parseClipsFromResponse
    parsed,            \* the completion of parseClipsFromResponse
    clientParsed,      \* the completion of OpenRouterClient.parseClipsFromResponse
    ollamaParsed,      \* the completion of OllamaClient.parseClipsFromResponse
    transcript,        \* the lines of the text handed to chunkTranscript
    maxChars,          \* its maxChars argument
    overlapSeconds,    \* its overlapSeconds argument
    chunksOut,         \* chunkTranscript(transcript, maxChars, overlapSeconds)
    \* ---- extension/client: the panel and its two AI clients ----
    currentState,      \* UIController.currentState
    currentBackend,    \* UIController.currentBackend
    apiKey,            \* OpenRouterClient's key ("" = none stored)
    ollamaModel,       \* OllamaClient's model ("" = none stored)
    settingsPending,   \* the settings requests still in flight
    clientCalls,       \* one record per analyzeTranscript call of a client
    viralClips,        \* UIController.viralClips: the clips under review
    approvedClips,     \* UIController.approvedClips
    currentClipIndex,  \* UIController.currentClipIndex
    \* ---- analyzeTranscript as a function of its segments and of chat() ----
    segments,          \* the segments argument of analyzeTranscript
    chatScript,        \* what chat() does for each chunk, in chunk order
    \* ---- OllamaClient.analyzeTranscript: one streaming call ----
    streamPc,          \* where the call is: idle, fetch, stream, done, threw
    now,               \* Date.now(), in milliseconds since the call began
    startTime,         \* its locals of the same names
    lastProgressUpdate,
    tokensReceived,
    firstTokenReceived,
    coldStartWarningShown,
    streamReads,       \* the reader.read() calls that returned data
    progressSeen,      \* the progress values passed to onProgress, in order
    \* ---- UIController: keep-warm mode ----
    isKeepWarmActive,  \* UIController._isKeepWarmActive
    keepWarmInterval,  \* whether UIController._keepWarmInterval is non-null
    liveTimers,        \* the keep-warm timers set and not cleared
    suspendedToggles,  \* the toggleKeepWarm calls waiting at their await
    modelCheckInterval,\* whether UIController._modelCheckInterval is non-null
    stopRan,           \* no toggle began since init or stopModelStatusPolling
    \* ---- prompts/viral-detection.ts: buildUserPrompt ----
    promptInput,       \* its arguments: transcript and options
    userPrompt         \* what it returned

serverVars == <<currentAnalysis, aborted, pc, wantsStream, chunks, chunkIdx,
                allClips, chatCalls, chatResults, events, reply, cancelReply,
                progressLog>>
rankVars == <<pool, overlapOut, finalClips>>
validVars == <<clipIn, serverValid, clientValid>>
parseVars == <<response, timeOffset, parsed, clientParsed, ollamaParsed>>
chunkVars == <<transcript, maxChars, overlapSeconds, chunksOut>>
reviewVars == <<viralClips, approvedClips, currentClipIndex>>
panelVars == <<currentState, currentBackend, apiKey, ollamaModel,
               settingsPending, clientCalls, reviewVars>>
pipeVars == <<segments, chatScript>>
streamVars == <<streamPc, now, startTime, lastProgressUpdate, tokensReceived,
                firstTokenReceived, coldStartWarningShown, streamReads,
                progressSeen>>
warmVars == <<isKeepWarmActive, keepWarmInterval, liveTimers,
              suspendedToggles, modelCheckInterval, stopRan>>
promptVars == <<promptInput, userPrompt>>
vars == <<serverVars, op, opts, rankVars, validVars, parseVars, chunkVars,
          panelVars, pipeVars, streamVars, warmVars, promptVars>>

(***************************************************************************)
(* Bounds of the model.                                                    *)
(***************************************************************************)
MaxReqs == 2
MaxChunks == 3
MaxClips == 3
MaxTime == 3
MaxTarget == 2
MaxRespLen == 4
MaxCalls == 3
MaxThinkLen == 6
MaxLines == 4
MaxTierSlots == 10
MaxClientCalls == 2
MaxSegments == 3
MaxStreamReads == 3
MaxSuspended == 2
MaxPromptLen == 2
MaxTimers == 2
ChunkSeconds == 20

(***************************************************************************)
(* Program constants.                                                      *)
(***************************************************************************)
DefaultMinClipDuration == 15
DefaultMaxClipDuration == 90
DefaultTargetCount == 10
DefaultOverlapSeconds == 30
ClientMinClipDuration == 30
HighQualityScore == 70
MediumQualityScore == 50
MediumQualityCap == 8
ServerScoreThreshold == 50
ClientScoreThreshold == 0
ScoreFloor == 0
ScoreCeiling == 100

Clip(s, e, v) == [startTime |-> s, endTime |-> e, viralScore |-> v]

Options(minD, maxD, target, minScore) ==
    [minClipDuration |-> minD, maxClipDuration |-> maxD,
     targetCount |-> target, minViralScore |-> minScore]

\* const opts = { ...DEFAULT_OPTIONS, ...options } for options = {}
DEFAULT_OPTIONS ==
    Options(DefaultMinClipDuration, DefaultMaxClipDuration, DefaultTargetCount,
            ServerScoreThreshold)

Min(a, b) == IF a < b THEN a ELSE b
Max(a, b) == IF a > b THEN a ELSE b

\* Array.prototype.slice(0, n)
Take(s, n) == SubSeq(s, 1, Min(n, Len(s)))

(***************************************************************************)
(* isValidClip (server) and OpenRouterClient.isValidClip.                  *)
(***************************************************************************)
isValidClip_exclusiveMin(clip, options) ==
    LET duration == clip.endTime - clip.startTime IN
    /\ duration > options.minClipDuration
    /\ duration <= options.maxClipDuration
    /\ clip.viralScore >= ServerScoreThreshold
    /\ clip.startTime >= 0
    /\ clip.endTime > clip.startTime

isValidClip(clip, options) ==
    LET duration == clip.endTime - clip.startTime IN
    /\ duration >= options.minClipDuration
    /\ duration <= options.maxClipDuration
    /\ clip.viralScore >= ServerScoreThreshold
    /\ clip.startTime >= 0
    /\ clip.endTime > clip.startTime

OpenRouterClient_isValidClip(clip, options) ==
    LET duration == clip.endTime - clip.startTime IN
    /\ duration >= options.minClipDuration
    /\ duration <= options.maxClipDuration
    /\ clip.viralScore >= ClientScoreThreshold
    /\ clip.startTime >= 0
    /\ clip.endTime > clip.startTime

(***************************************************************************)
(* Array.prototype.sort((a, b) => b.viralScore - a.viralScore): a stable   *)
(* sort, highest score first; equal scores keep their input order.         *)
(***************************************************************************)
\* a sort that puts a clip before the clips of equal score already placed
RECURSIVE InsertByScore_tiesFirst(_, _)
InsertByScore_tiesFirst(x, s) ==
    IF s = <<>> THEN <<x>>
    ELSE IF Head(s).viralScore > x.viralScore
         THEN <<Head(s)>> \o InsertByScore_tiesFirst(x, Tail(s))
         ELSE <<x>> \o s

RECURSIVE InsertByScore(_, _)
InsertByScore(x, s) ==
    IF s = <<>> THEN <<x>>
    ELSE IF Head(s).viralScore >= x.viralScore
         THEN <<Head(s)>> \o InsertByScore(x, Tail(s))
         ELSE <<x>> \o s

RECURSIVE SortByScore(_)
SortByScore(s) ==
    IF s = <<>> THEN <<>>
    ELSE InsertByScore(s[Len(s)], SortByScore(SubSeq(s, 1, Len(s) - 1)))

(***************************************************************************)
(* removeOverlaps (server): the three-clause test of one clip against one  *)
(* already accepted clip, and the greedy scan.                             *)
(***************************************************************************)
HasOverlap_noContainment(clip, existing) ==
    \/ (clip.startTime >= existing.startTime /\ clip.startTime < existing.endTime)
    \/ (clip.endTime > existing.startTime /\ clip.endTime <= existing.endTime)

HasOverlap_closed(clip, existing) ==
    \/ (clip.startTime >= existing.startTime /\ clip.startTime <= existing.endTime)
    \/ (clip.endTime >= existing.startTime /\ clip.endTime <= existing.endTime)
    \/ (clip.startTime <= existing.startTime /\ clip.endTime >= existing.endTime)

HasOverlap(clip, existing) ==
    \/ (clip.startTime >= existing.startTime /\ clip.startTime < existing.endTime)
    \/ (clip.endTime > existing.startTime /\ clip.endTime <= existing.endTime)
    \/ (clip.startTime <= existing.startTime /\ clip.endTime >= existing.endTime)

RECURSIVE removeOverlapsFrom(_, _)
removeOverlapsFrom(clips, result) ==
    IF clips = <<>> THEN result
    ELSE LET clip == Head(clips)
             hasOverlap == \E i \in 1..Len(result) : HasOverlap(clip, result[i])
         IN removeOverlapsFrom(Tail(clips),
                               IF hasOverlap THEN result ELSE Append(result, clip))

removeOverlaps(clips) == removeOverlapsFrom(clips, <<>>)

(***************************************************************************)
(* The tail of analyzeTranscript (analyzer.ts 105-112): filter, sort,      *)
(* slice(0, targetCount), then removeOverlaps.                             *)
(***************************************************************************)
\* the pool passed on without the filter of analyzer.ts 107
ValidClips_noFilter(clips, options) == clips

ValidClips(clips, options) ==
    LET Keep(c) == isValidClip(c, options) IN SelectSeq(clips, Keep)

sortedClips(clips, options) ==
    Take(SortByScore(ValidClips(clips, options)), options.targetCount)

RankAndFilter(clips, options) == removeOverlaps(sortedClips(clips, options))

(***************************************************************************)
(* The model's text.  A response is a sequence of lexical tokens: "[" and  *)
(* "]", a run of prose ("text"), and the JSON values null, a number, and   *)
(* an object.  Separators (commas, white space) between adjacent JSON      *)
(* values are taken as present.  A JSON scalar carries its JavaScript      *)
(* typeof and, for a number or a numeric string, the number it denotes.    *)
(***************************************************************************)
Undefined == [t |-> "undefined", v |-> 0]
Num(n) == [t |-> "number", v |-> n]
Str(n) == [t |-> "string", v |-> n]

Tok(kind) ==
    [k |-> kind, startTime |-> Undefined, endTime |-> Undefined,
     viralScore |-> Undefined, segments |-> <<>>]

\* an object without a `segments` array
Obj(s, e, v) ==
    [k |-> "object", startTime |-> s, endTime |-> e, viralScore |-> v,
     segments |-> <<>>]

\* one element of an object's `segments` array, and an object that has one
JsonSegment(s, e, order) == [startTime |-> s, endTime |-> e, order |-> order]
ObjSegs(s, e, v, segs) ==
    [k |-> "object", startTime |-> s, endTime |-> e, viralScore |-> v,
     segments |-> segs]

LB == Tok("[")
RB == Tok("]")
TEXT == Tok("text")
NULL == Tok("null")
NUMBER == Tok("number")
ARRAY == Tok("array")
THINK_OPEN == Tok("<think>")
THINK_CLOSE == Tok("</think>")

\* A completion of a JavaScript function: it returns a value or it throws.
Return(val) == [type |-> "return", value |-> val]
Throw == [type |-> "throw", value |-> <<>>]

Positions(resp, kind) == {i \in 1..Len(resp) : resp[i].k = kind}
SetMin(S) == CHOOSE x \in S : \A y \in S : x <= y
SetMax(S) == CHOOSE x \in S : \A y \in S : x >= y

(***************************************************************************)
(* response.match(/\[[\s\S]*\]/): from the first "[" to the last "]" after *)
(* it; <<>> stands for null (no match).                                    *)
(***************************************************************************)
jsonMatch(resp) ==
    LET opens == Positions(resp, "[")
        first == SetMin(opens)
        closes == {j \in Positions(resp, "]") : j > first}
    IN IF opens = {} THEN <<>>
       ELSE IF closes = {} THEN <<>>
       ELSE SubSeq(resp, first, SetMax(closes))

(***************************************************************************)
(* JSON.parse of the matched text, which starts with "[" and ends with     *)
(* "]".  It throws SyntaxError on prose, on a "]" that closes the outer    *)
(* array before the end, and on an unclosed "[".  Otherwise it returns the *)
(* elements of the outer array; a nested array is one element.             *)
(***************************************************************************)
RECURSIVE JsonScan(_, _, _, _)
JsonScan(toks, i, depth, elems) ==
    IF i > Len(toks) THEN (IF depth = 0 THEN Return(elems) ELSE Throw)
    ELSE IF depth = 0 THEN Throw
    ELSE LET t == toks[i] IN
         CASE t.k = "[" ->
                JsonScan(toks, i + 1, depth + 1,
                         IF depth = 1 THEN Append(elems, ARRAY) ELSE elems)
           [] t.k = "]" -> JsonScan(toks, i + 1, depth - 1, elems)
           [] t.k \in {"null", "number", "object"} ->
                JsonScan(toks, i + 1, depth,
                         IF depth = 1 THEN Append(elems, t) ELSE elems)
           [] OTHER -> Throw

JSON_parse(toks) == JsonScan(toks, 2, 1, <<>>)

\* typeof clip.<field> === 'number' for the three fields (analyzer.ts 171-175)
HasNumericFields(elem) ==
    /\ elem.startTime.t = "number"
    /\ elem.endTime.t = "number"
    /\ elem.viralScore.t = "number"

\* Math.min(100, Math.max(0, clip.viralScore))
ClampScore_noCeiling(score) == Max(ScoreFloor, score)

ClampScore(score) == Min(ScoreCeiling, Max(ScoreFloor, score))

\* the .map callback (analyzer.ts 176-193)
ToViralClip(elem, offset) ==
    Clip(elem.startTime.v + offset, elem.endTime.v + offset,
         ClampScore(elem.viralScore.v))

RECURSIVE MapClips(_, _)
MapClips(elems, offset) ==
    IF elems = <<>> THEN <<>>
    ELSE <<ToViralClip(Head(elems), offset)>> \o MapClips(Tail(elems), offset)

(***************************************************************************)
(* The body of the try block of parseClipsFromResponse (analyzer.ts        *)
(* 156-193).  Reading a property of null throws TypeError, so the filter   *)
(* callback throws as soon as the array holds a null.                      *)
(***************************************************************************)
ParseBody(resp, offset) ==
    LET m == jsonMatch(resp) IN
    IF m = <<>> THEN Return(<<>>)
    ELSE LET p == JSON_parse(m) IN
         IF p.type = "throw" THEN Throw
         ELSE IF \E i \in 1..Len(p.value) : p.value[i].k = "null" THEN Throw
         ELSE Return(MapClips(SelectSeq(p.value, HasNumericFields), offset))

\* the function without its catch block
parseClipsFromResponse_noCatch(resp, offset) == ParseBody(resp, offset)

\* parseClipsFromResponse (analyzer.ts 154-205): try { body } catch { return [] }
parseClipsFromResponse(resp, offset) ==
    LET body == ParseBody(resp, offset) IN
    IF body.type = "throw" THEN Return(<<>>) ELSE body

(***************************************************************************)
(* OpenRouterClient.parseClipsFromResponse (openrouter-client.js 404-466). *)
(* The extraction, JSON.parse and the typeof filter are the server's, line *)
(* for line; no offset is added.  An object without a non-empty `segments` *)
(* array gets the single segment built from its own startTime and endTime. *)
(* The fields of the segments in the responses are numbers or numeric      *)
(* strings, for which parseFloat and parseInt give the number denoted.     *)
(***************************************************************************)
OpenRouterClient_ClampScore(score) == Min(ScoreCeiling, Max(ScoreFloor, score))

\* parseFloat(x) and parseInt(x) || 0 of a number or a numeric string
parseFloat(scalar) == scalar.v
parseIntOr0(scalar) == scalar.v

\* Array.prototype.sort((a, b) => a.order - b.order), which is stable
RECURSIVE InsertByOrder(_, _)
InsertByOrder(seg, sorted) ==
    IF sorted = <<>> THEN <<seg>>
    ELSE IF sorted[Len(sorted)].order <= seg.order THEN Append(sorted, seg)
    ELSE Append(InsertByOrder(seg, SubSeq(sorted, 1, Len(sorted) - 1)),
                sorted[Len(sorted)])

RECURSIVE SortByOrder(_)
SortByOrder(segs) ==
    IF segs = <<>> THEN <<>>
    ELSE InsertByOrder(segs[Len(segs)], SortByOrder(SubSeq(segs, 1, Len(segs) - 1)))

\* openrouter-client.js 426-434
OpenRouterClient_Segments(elem) ==
    IF elem.segments # <<>>
    THEN SortByOrder([i \in 1..Len(elem.segments) |->
                        [startTime |-> parseFloat(elem.segments[i].startTime),
                         endTime |-> parseFloat(elem.segments[i].endTime),
                         order |-> parseIntOr0(elem.segments[i].order)]])
    ELSE <<[startTime |-> elem.startTime.v, endTime |-> elem.endTime.v,
            order |-> 0]>>

\* openrouter-client.js 437-438
OpenRouterClient_IsReordered(segs) ==
    /\ Len(segs) > 1
    /\ \E i \in 2..Len(segs) : segs[i].startTime < segs[i - 1].startTime

OpenRouterClient_ToClip(elem) ==
    LET segs == OpenRouterClient_Segments(elem) IN
    [startTime |-> elem.startTime.v,
     endTime |-> elem.endTime.v,
     viralScore |-> OpenRouterClient_ClampScore(elem.viralScore.v),
     segments |-> segs,
     isReordered |-> OpenRouterClient_IsReordered(segs)]

RECURSIVE OpenRouterClient_MapClips(_)
OpenRouterClient_MapClips(elems) ==
    IF elems = <<>> THEN <<>>
    ELSE <<OpenRouterClient_ToClip(Head(elems))>>
         \o OpenRouterClient_MapClips(Tail(elems))

OpenRouterClient_ParseBody(resp) ==
    LET m == jsonMatch(resp) IN
    IF m = <<>> THEN Return(<<>>)
    ELSE LET p == JSON_parse(m) IN
         IF p.type = "throw" THEN Throw
         ELSE IF \E i \in 1..Len(p.value) : p.value[i].k = "null" THEN Throw
         ELSE Return(OpenRouterClient_MapClips(SelectSeq(p.value, HasNumericFields)))

OpenRouterClient_parseClipsFromResponse(resp) ==
    LET body == OpenRouterClient_ParseBody(resp) IN
    IF body.type = "throw" THEN Return(<<>>) ELSE body

(***************************************************************************)
(* The tail of OpenRouterClient.analyzeTranscript (openrouter-client.js    *)
(* 203-215): the duration filter, the sort by score, removeOverlaps on the *)
(* segments (486-503), then every clip of 70 and more with the first eight *)
(* clips from 50 to 69, sorted again.                                      *)
(***************************************************************************)
Segment(s, e, order) == [startTime |-> s, endTime |-> e, order |-> order]

ClientClip(s, e, v, segs) ==
    [startTime |-> s, endTime |-> e, viralScore |-> v, segments |-> segs,
     isReordered |-> FALSE]

\* clipSegs.some(cs => existingSegs.some(es => ...))
OpenRouterClient_HasOverlap(clip, existing) ==
    \E i \in 1..Len(clip.segments), j \in 1..Len(existing.segments) :
        /\ clip.segments[i].startTime < existing.segments[j].endTime
        /\ clip.segments[i].endTime > existing.segments[j].startTime

RECURSIVE OpenRouterClient_removeOverlapsFrom(_, _)
OpenRouterClient_removeOverlapsFrom(clips, result) ==
    IF clips = <<>> THEN result
    ELSE LET clip == Head(clips)
             hasOverlap == \E k \in 1..Len(result) :
                              OpenRouterClient_HasOverlap(clip, result[k])
         IN OpenRouterClient_removeOverlapsFrom(
                Tail(clips), IF hasOverlap THEN result ELSE Append(result, clip))

OpenRouterClient_removeOverlaps(clips) ==
    OpenRouterClient_removeOverlapsFrom(clips, <<>>)

\* clips.filter(isValidClip).sort((a, b) => b.viralScore - a.viralScore)
OpenRouterClient_validClips(clips, options) ==
    LET Keep(c) == OpenRouterClient_isValidClip(c, options)
    IN SortByScore(SelectSeq(clips, Keep))

IsHighQuality(c) == c.viralScore >= HighQualityScore

IsMediumQuality(c) ==
    c.viralScore >= MediumQualityScore /\ c.viralScore < HighQualityScore

\* the smart filter without the cap on the medium clips
SmartFilter_noCap(deduped) ==
    SortByScore(SelectSeq(deduped, IsHighQuality)
                \o SelectSeq(deduped, IsMediumQuality))

\* highQuality, mediumQuality and finalClips (212-215)
SmartFilter(deduped) ==
    SortByScore(SelectSeq(deduped, IsHighQuality)
                \o Take(SelectSeq(deduped, IsMediumQuality), MediumQualityCap))

OpenRouterClient_selectClips(clips, options) ==
    SmartFilter(OpenRouterClient_removeOverlaps(
                    OpenRouterClient_validClips(clips, options)))

(***************************************************************************)
(* OllamaClient.parseClipsFromResponse (the streaming client, 558-606):    *)
(* the same extraction and JSON.parse, then parseFloat on the three fields *)
(* of every element; an element with a NaN among them maps to null and is  *)
(* filtered out.  parseFloat gives the number for a number or a numeric    *)
(* string and NaN for undefined.                                           *)
(***************************************************************************)
parseFloatIsNaN(scalar) == scalar.t \notin {"number", "string"}

OllamaClient_IsSkipped(elem) ==
    \/ parseFloatIsNaN(elem.startTime)
    \/ parseFloatIsNaN(elem.endTime)
    \/ parseFloatIsNaN(elem.viralScore)

OllamaClient_ClampScore(score) == Min(ScoreCeiling, Max(ScoreFloor, score))

OllamaClient_ToClip(elem) ==
    Clip(elem.startTime.v, elem.endTime.v, OllamaClient_ClampScore(elem.viralScore.v))

RECURSIVE OllamaClient_MapClips(_)
OllamaClient_MapClips(elems) ==
    IF elems = <<>> THEN <<>>
    ELSE (IF OllamaClient_IsSkipped(Head(elems)) THEN <<>>
          ELSE <<OllamaClient_ToClip(Head(elems))>>)
         \o OllamaClient_MapClips(Tail(elems))

OllamaClient_ParseBody(resp) ==
    LET m == jsonMatch(resp) IN
    IF m = <<>> THEN Return(<<>>)
    ELSE LET p == JSON_parse(m) IN
         IF p.type = "throw" THEN Throw
         ELSE IF \E i \in 1..Len(p.value) : p.value[i].k = "null" THEN Throw
         ELSE Return(OllamaClient_MapClips(p.value))

OllamaClient_parseClipsFromResponse(resp) ==
    LET body == OllamaClient_ParseBody(resp) IN
    IF body.type = "throw" THEN Return(<<>>) ELSE body

(***************************************************************************)
(* OllamaClient.analyzeTranscript, from the full streamed content to the   *)
(* parsed clips (411-424): when the content includes "</think>", the text  *)
(* after the last one is parsed, or the whole content when that text is    *)
(* empty; content that is blank makes the function throw.                  *)
(***************************************************************************)
OllamaClient_contentToParse(fullContent) ==
    LET closes == Positions(fullContent, "</think>") IN
    IF closes = {} THEN fullContent
    ELSE LET last == SubSeq(fullContent, SetMax(closes) + 1, Len(fullContent))
         IN IF last = <<>> THEN fullContent ELSE last

OllamaClient_parseContent(fullContent) ==
    LET contentToParse == OllamaClient_contentToParse(fullContent) IN
    IF contentToParse = <<>> THEN Throw
    ELSE OllamaClient_parseClipsFromResponse(contentToParse)

(***************************************************************************)
(* chunkTranscript (chunker.ts).  A transcript is the sequence of its      *)
(* lines, the pieces transcript.split('\n') gives; the empty transcript is *)
(* the single empty line.  A line has a length in characters, an optional  *)
(* leading label "[M:SS]" or "[H:MM:SS]" (<<m, s>>, <<h, m, s>>, or <<>>   *)
(* for none) and is blank when it holds white space only.  A line that is  *)
(* not blank starts and ends with a character that is not white space.     *)
(***************************************************************************)
Line(len, label, blank) == [len |-> len, label |-> label, blank |-> blank]

EmptyLine == Line(0, <<>>, TRUE)

\* line.match(/^\[(\d+):(\d+)(?::(\d+))?\]/)
timeMatch(line) == line.label # <<>>

\* hours * 3600 + mins * 60 + secs of a matched label
LabelSeconds(line) ==
    IF Len(line.label) = 3
    THEN line.label[1] * 3600 + line.label[2] * 60 + line.label[3]
    ELSE line.label[1] * 60 + line.label[2]

RECURSIVE SumLen(_)
SumLen(lines) == IF lines = <<>> THEN 0 ELSE Head(lines).len + SumLen(Tail(lines))

\* the length of lines.join('\n')
JoinedLength(lines) == IF lines = <<>> THEN 0 ELSE SumLen(lines) + Len(lines) - 1

\* the length of a buffer in which every line is followed by '\n'
BufferLength(lines) == SumLen(lines) + Len(lines)

\* String.prototype.trim on a buffer: leading and trailing blank lines and
\* the line breaks around them go
RECURSIVE TrimStart(_)
TrimStart(lines) ==
    IF lines = <<>> THEN <<>>
    ELSE IF Head(lines).blank THEN TrimStart(Tail(lines)) ELSE lines

RECURSIVE TrimEnd(_)
TrimEnd(lines) ==
    IF lines = <<>> THEN <<>>
    ELSE IF lines[Len(lines)].blank THEN TrimEnd(SubSeq(lines, 1, Len(lines) - 1))
    ELSE lines

trim(lines) == TrimEnd(TrimStart(lines))

\* extractEndTime (168-182): the label of the last labelled line, or 0
RECURSIVE extractEndTime(_)
extractEndTime(lines) ==
    IF lines = <<>> THEN 0
    ELSE IF timeMatch(lines[Len(lines)]) THEN LabelSeconds(lines[Len(lines)])
    ELSE extractEndTime(SubSeq(lines, 1, Len(lines) - 1))

TranscriptChunk(text, startOffset, endOffset) ==
    [text |-> text, startOffset |-> startOffset, endOffset |-> endOffset]

\* the while loop of 132-148: lines older than overlap seconds leave the
\* front of the buffer
RECURSIVE TrimOverlapBuffer(_, _, _)
TrimOverlapBuffer(buffer, lastTimestamp, overlap) ==
    IF buffer = <<>> THEN <<>>
    ELSE IF ~timeMatch(Head(buffer)) THEN buffer
    ELSE IF lastTimestamp - LabelSeconds(Head(buffer)) > overlap
         THEN TrimOverlapBuffer(Tail(buffer), lastTimestamp, overlap)
         ELSE buffer

\* overlapBuffer.join('\n') + '\n' as a buffer of terminated lines
SeedFromOverlap(buffer) == IF buffer = <<>> THEN <<EmptyLine>> ELSE buffer

\* chunkStartTime of the chunk that follows a chunk closed at lastTimestamp
NextChunkStart_afterClose(lastTimestamp, overlap) == lastTimestamp + overlap

NextChunkStart(lastTimestamp, overlap) == lastTimestamp - overlap

\* one iteration of the for loop (101-151) on the loop state st
ChunkLoopStep(st, line, limit, overlap) ==
    LET ts == IF timeMatch(line) THEN LabelSeconds(line) ELSE st.lastTimestamp
        closes == /\ BufferLength(st.currentChunk) + line.len + 1 > limit
                  /\ BufferLength(st.currentChunk) > 0
        chunks1 == IF closes
                   THEN Append(st.chunks,
                               TranscriptChunk(trim(st.currentChunk),
                                               st.chunkStartTime, ts))
                   ELSE st.chunks
        current1 == IF closes THEN SeedFromOverlap(st.overlapBuffer)
                    ELSE st.currentChunk
        start1 == IF closes THEN NextChunkStart(ts, overlap) ELSE st.chunkStartTime
        buffer1 == IF closes THEN <<>> ELSE st.overlapBuffer
        buffer2 == IF timeMatch(line) /\ ts > 0
                   THEN TrimOverlapBuffer(Append(buffer1, line), ts, overlap)
                   ELSE buffer1
    IN [chunks |-> chunks1,
        currentChunk |-> Append(current1, line),
        chunkStartTime |-> start1,
        lastTimestamp |-> ts,
        overlapBuffer |-> buffer2]

RECURSIVE ChunkLoop(_, _, _, _)
ChunkLoop(st, lines, limit, overlap) ==
    IF lines = <<>> THEN st
    ELSE ChunkLoop(ChunkLoopStep(st, Head(lines), limit, overlap), Tail(lines),
                   limit, overlap)

\* chunkTranscript (79-163)
\* the single chunk with its two offsets exchanged
WholeTranscriptChunk_offsetsSwapped(lines) ==
    TranscriptChunk(lines, extractEndTime(lines), 0)

\* part_004 85-89: the chunk of a transcript that fits
WholeTranscriptChunk(lines) == TranscriptChunk(lines, 0, extractEndTime(lines))

chunkTranscript(lines, limit, overlap) ==
    IF JoinedLength(lines) <= limit
    THEN <<WholeTranscriptChunk(lines)>>
    ELSE LET st == ChunkLoop([chunks |-> <<>>, currentChunk |-> <<>>,
                              chunkStartTime |-> 0, lastTimestamp |-> 0,
                              overlapBuffer |-> <<>>],
                             lines, limit, overlap)
         IN IF JoinedLength(trim(st.currentChunk)) > 0
            THEN Append(st.chunks,
                        TranscriptChunk(trim(st.currentChunk), st.chunkStartTime,
                                        st.lastTimestamp))
            ELSE st.chunks

(***************************************************************************)
(* Inputs of the pure functions.                                           *)
(***************************************************************************)
Reqs == 1..MaxReqs

SeqsUpTo(S, n) == UNION {[1..k -> S] : k \in 0..n}

\* clips for the ranking: intervals inside [0, MaxTime], two scores that
\* pass the server threshold, one clip below it and one of zero length
RankClips ==
    {Clip(s, e, v) : s \in 0..1, e \in 2..MaxTime, v \in {60, 80}}
    \cup {Clip(0, 1, 60), Clip(0, 1, 80), Clip(1, 2, 60), Clip(1, 2, 80)}
    \cup {Clip(0, 2, 40), Clip(1, 1, 80)}

RankOptions == {Options(1, MaxTime, n, ServerScoreThreshold) : n \in 1..MaxTarget}

\* clips for isValidClip: every pair of times in [-1, MaxTime]
ValidClipInputs ==
    {Clip(s, e, v) : s \in (-1)..MaxTime, e \in (-1)..MaxTime,
                     v \in {0, 40, 50, 60, 100}}

ValidOptions ==
    {Options(lo, hi, DefaultTargetCount, m) :
        lo \in 0..(MaxTime - 1), hi \in 1..MaxTime, m \in {0, 40, 60}}

\* tokens of a model response
ResponseTokens ==
    {LB, RB, TEXT, NULL, NUMBER,
     Obj(Num(10), Num(20), Num(150)), Obj(Num(10), Num(20), Num(-5)),
     Obj(Num(10), Num(20), Num(80)), Obj(Str(10), Str(20), Str(80)),
     Obj(Num(10), Num(20), Undefined)}

TimeOffsets == {0, 30}

\* tokens of a response with segments: an object without the array, one
\* whose startTime and endTime span its two segments, one whose segments lie
\* elsewhere and out of order, and one with segments given as strings
SegmentTokens ==
    {LB, RB, Obj(Num(10), Num(20), Num(80)),
     ObjSegs(Num(10), Num(40), Num(80),
             <<JsonSegment(Num(10), Num(20), Num(0)),
               JsonSegment(Num(30), Num(40), Num(1))>>),
     ObjSegs(Num(10), Num(20), Num(80),
             <<JsonSegment(Num(30), Num(40), Num(1)),
               JsonSegment(Num(5), Num(8), Num(0))>>),
     ObjSegs(Num(10), Num(20), Num(80),
             <<JsonSegment(Str(12), Str(25), Str(0))>>)}

\* tokens of a response of a reasoning model
ThinkTokens == {THINK_OPEN, THINK_CLOSE, LB, RB, TEXT, Obj(Num(10), Num(20), Num(80))}

NoClip == Clip(0, 0, 0)

\* lines of a transcript: labelled lines of 9 characters at 0:00, 0:10, 0:20,
\* 0:40 and 1:10, a labelled line of 25 characters at 1:00:00, and without a
\* label the empty line, a line of 25 blanks and a line of 9 characters
ChunkLines ==
    {Line(9, <<0, t>>, FALSE) : t \in {0, 10, 20, 40}}
    \cup {Line(9, <<1, 10>>, FALSE), Line(25, <<1, 0, 0>>, FALSE)}
    \cup {EmptyLine, Line(25, <<>>, TRUE), Line(9, <<>>, FALSE)}

ChunkLimits == {20, 30}

\* pools for the tiered policy: slot j is a clip of 30 seconds starting at
\* 40 * (j - 1) whose score is 49 + j (from 50 on: medium) or 70, and in the
\* first two slots also 49; the pool may end with a clip of score 75 in two
\* segments, the first of which lies inside slot 1
TierSlotClips(j) ==
    {ClientClip(40 * (j - 1), 40 * (j - 1) + 30, v,
                <<Segment(40 * (j - 1), 40 * (j - 1) + 30, 0)>>) :
        v \in (IF j <= 2 THEN {49} ELSE {}) \cup {49 + j, 70}}

RECURSIVE TierSlotPools(_)
TierSlotPools(n) ==
    IF n = 0 THEN {<<>>}
    ELSE {Append(p, c) : p \in TierSlotPools(n - 1), c \in TierSlotClips(n)}

TwoSegmentClip ==
    ClientClip(1000, 1040, 75, <<Segment(10, 20, 0), Segment(1000, 1030, 1)>>)

TierPools ==
    LET slots == UNION {TierSlotPools(n) : n \in 0..MaxTierSlots}
    IN slots \cup {Append(p, TwoSegmentClip) : p \in slots}

ClientOptions ==
    [minClipDuration |-> ClientMinClipDuration,
     maxClipDuration |-> DefaultMaxClipDuration]

OverlapChoices == {10, DefaultOverlapSeconds}

(***************************************************************************)
(* The extension panel (ui-controller.js) and the entry of its two AI      *)
(* clients (openrouter-client.js, src/unnamed/part_008).  A stored key or   *)
(* model is a string; "" stands for every falsy value (null, undefined,    *)
(* ''), which the code tests with !value.                                  *)
(***************************************************************************)
StoredKey == "sk-or-key"
StoredModel == "qwen2.5:14b"

\* what the user may have typed in #api-key-input when saving
KeyInputs == {"", "not-a-key", StoredKey}
\* key.startsWith('sk-or-') (ui-controller.js 492), on KeyInputs
StartsWithSkOr(key) == key = StoredKey
\* the value of #ollama-model-select: "" is the placeholder option
ModelInputs == {"", StoredModel}

Backends == {"openrouter", "ollama"}
PanelStates ==
    {"settings", "setup", "analyzing", "review", "generate", "error"}

\* OpenRouterClient.hasApiKey / OllamaClient.isConfigured
OpenRouterClient_hasApiKey(key) == key # ""
OllamaClient_isConfigured(model) == model # ""

UIController_isBackendConfigured(backend, key, model) ==
    IF backend = "ollama" THEN OllamaClient_isConfigured(model)
                          ELSE OpenRouterClient_hasApiKey(key)

UIController_getAIClient(backend) ==
    IF backend = "ollama" THEN "OllamaClient" ELSE "OpenRouterClient"

\* One call of client.analyzeTranscript: who made it, whether the client
\* was configured when called, every progress value it passed to
\* onProgress, how many times it called fetch, and how it completed.
ClientCall(client, caller, configured, status, progress, requests) ==
    [client |-> client, caller |-> caller, configured |-> configured,
     status |-> status, progress |-> progress, requests |-> requests,
     clips |-> 0]

\* OpenRouterClient.analyzeTranscript up to its first await: the key test
\* (107-110), progress 5 when the transcript was truncated (133-141),
\* progress 10 (143-147), fetch (152).
OpenRouterClient_analyzeTranscript(key, caller, wasTruncated) ==
    IF ~OpenRouterClient_hasApiKey(key)
    THEN ClientCall("OpenRouterClient", caller, FALSE, "threw", <<>>, 0)
    ELSE ClientCall("OpenRouterClient", caller, TRUE, "pending",
                    IF wasTruncated THEN <<5, 10>> ELSE <<10>>, 1)

\* OllamaClient.analyzeTranscript up to its first await: the model test
\* (224-227), progress 2 (250-255), progress 5 (260-266), fetch (269).
OllamaClient_analyzeTranscript(model, caller) ==
    IF ~OllamaClient_isConfigured(model)
    THEN ClientCall("OllamaClient", caller, FALSE, "threw", <<>>, 0)
    ELSE ClientCall("OllamaClient", caller, TRUE, "pending", <<2, 5>>, 1)

\* What the rest of a pending call does once its fetch settles.  The
\* outcome is the network's: the fetch rejects, the response is not ok,
\* it carries no content, its content gives no clip, or it gives clips.
FetchOutcomes == {"rejected", "notOk", "noContent", "noClips", "clips"}

\* openrouter-client.js 152-242
OpenRouterClient_afterFetch(call, outcome) ==
    CASE outcome = "rejected" -> [call EXCEPT !.status = "threw"]
      [] outcome \in {"notOk", "noContent"} ->
            [call EXCEPT !.status = "threw", !.progress = @ \o <<70>>]
      [] outcome = "noClips" ->
            [call EXCEPT !.status = "returned",
                         !.progress = @ \o <<70, 90, 100>>]
      [] OTHER ->
            [call EXCEPT !.status = "returned", !.clips = 1,
                         !.progress = @ \o <<70, 90, 100>>]

\* part_008 269-470.  The updates the stream loop makes every
\* 100 ms of wall time (progress 10..80) are left out: the stream is taken
\* to arrive within one such interval.
OllamaClient_afterFetch(call, outcome) ==
    CASE outcome \in {"rejected", "notOk"} -> [call EXCEPT !.status = "threw"]
      [] outcome = "noContent" ->
            [call EXCEPT !.status = "threw", !.progress = @ \o <<8, 85>>]
      [] outcome = "noClips" ->
            [call EXCEPT !.status = "threw",
                         !.progress = @ \o <<8, 10, 85, 90, 100>>]
      [] OTHER ->
            [call EXCEPT !.status = "returned", !.clips = 1,
                         !.progress = @ \o <<8, 10, 85, 90, 100>>]

\* ui-controller.js 15-17
ReviewIdle ==
    viralClips = <<>> /\ approvedClips = <<>> /\ currentClipIndex = 0

\* UIController.init (29-42): loadBackendPreference selects the saved
\* backend (selecting 'ollama' starts the model status polling and a model
\* refresh), then the panel shows 'settings' unless the backend is
\* configured.
UIController_init(backend, key, model) ==
    /\ currentBackend = backend
    /\ apiKey = key
    /\ ollamaModel = model
    /\ settingsPending = IF backend = "ollama" THEN {"models"} ELSE {}
    /\ currentState = IF UIController_isBackendConfigured(backend, key, model)
                      THEN "setup" ELSE "settings"
    /\ clientCalls = <<>>
    /\ ReviewIdle
    /\ isKeepWarmActive = FALSE /\ keepWarmInterval = FALSE
    /\ liveTimers = 0
    /\ suspendedToggles = [activate |-> 0, deactivate |-> 0]
    /\ modelCheckInterval = (backend = "ollama")
    /\ stopRan = TRUE

PanelIdle ==
    /\ currentState = "setup" /\ currentBackend = "openrouter"
    /\ apiKey = "" /\ ollamaModel = ""
    /\ settingsPending = {} /\ clientCalls = <<>>
    /\ ReviewIdle

(***************************************************************************)
(* analyzeTranscript (analyzer.ts 22-126) as a function of the segments    *)
(* and of what chat() does for each chunk.  A segment is its start second  *)
(* and the length of its text (which has no line break).                   *)
(***************************************************************************)
AnalyzerMaxChars == 24000

TranscriptSegment(start, textLength) == [start |-> start, textLength |-> textLength]

RECURSIVE DecimalLength(_)
DecimalLength(n) == IF n < 10 THEN 1 ELSE 1 + DecimalLength(n \div 10)

\* formatTime (analyzer.ts 140-149): the label as timeMatch reads it back,
\* and the number of characters it takes
formatTime(seconds) ==
    LET h == seconds \div 3600
        m == (seconds % 3600) \div 60
        sec == seconds % 60
    IN  IF h > 0
        THEN [label |-> <<h, m, sec>>, length |-> DecimalLength(h) + 6]
        ELSE [label |-> <<m, sec>>, length |-> DecimalLength(m) + 3]

\* formatTranscript (analyzer.ts 131-135): one line `[label] text` per segment
formatTranscript(segs) ==
    [i \in 1..Len(segs) |->
        LET t == formatTime(segs[i].start)
        IN  Line(1 + t.length + 2 + segs[i].textLength, t.label, FALSE)]

\* one settled chat() call
ChatReply(threw, resp) == [threw |-> threw, response |-> resp]

\* analyzer.ts 45-101: the pool after the first k chunks
RECURSIVE AllClipsAfter(_, _, _)
AllClipsAfter(chunkList, script, k) ==
    IF k = 0 THEN <<>>
    ELSE AllClipsAfter(chunkList, script, k - 1) \o
         (IF script[k].threw THEN <<>>
          ELSE parseClipsFromResponse(script[k].response,
                                      chunkList[k].startOffset).value)

AnalyzerChunks(segs) ==
    chunkTranscript(formatTranscript(segs), AnalyzerMaxChars,
                    DefaultOverlapSeconds)

\* the segments: starts out of 0, 20, 40, 100 and 160 in ascending order,
\* each with a short text or with one of 15000 characters
SegmentStarts == {0, 20, 40, 100, 160}
SegmentLengths == {10, 15000}

RECURSIVE AscendingSegments(_)
AscendingSegments(n) ==
    IF n = 0 THEN {<<>>}
    ELSE LET shorter == AscendingSegments(n - 1)
         IN  shorter \cup
             {Append(p, TranscriptSegment(t, l)) :
                 p \in {q \in shorter : Len(q) = n - 1},
                 t \in SegmentStarts, l \in SegmentLengths}

PipeSegments ==
    {p \in AscendingSegments(MaxSegments) :
        /\ p # <<>>
        /\ \A i \in 1..(Len(p) - 1) : p[i].start < p[i + 1].start}

\* chat() throws, or answers with no clip, with the clip of the end-to-end
\* scenario, with a clip between two labels of the transcript, or with a
\* clip that is reversed, starts before 0, is too short or scores too low
PipeReplies ==
    {ChatReply(TRUE, <<>>), ChatReply(FALSE, <<LB, RB>>)}
    \cup {ChatReply(FALSE, <<LB, Obj(Num(c[1]), Num(c[2]), Num(c[3])), RB>>) :
            c \in {<<5, 35, 92>>, <<100, 160, 80>>, <<35, 5, 92>>,
                   <<-5, 35, 150>>, <<20, 30, 92>>, <<40, 100, 40>>}}

\* the options of the caller: the defaults, with targetCount 10, 1 or 0
PipeOptions ==
    {[DEFAULT_OPTIONS EXCEPT !.targetCount = n] : n \in {0, 1, DefaultTargetCount}}

PipeIdle == segments = <<>> /\ chatScript = <<>>

\* ui-controller.js 20-21
WarmIdle ==
    /\ isKeepWarmActive = FALSE /\ keepWarmInterval = FALSE
    /\ liveTimers = 0
    /\ suspendedToggles = [activate |-> 0, deactivate |-> 0]
    /\ modelCheckInterval = FALSE
    /\ stopRan = FALSE

PromptIdle == promptInput = <<>> /\ userPrompt = <<>>

StreamIdle ==
    /\ streamPc = "idle" /\ now = 0 /\ startTime = 0
    /\ lastProgressUpdate = 0 /\ tokensReceived = 0
    /\ firstTokenReceived = FALSE /\ coldStartWarningShown = FALSE
    /\ streamReads = 0 /\ progressSeen = <<>>

ServerIdle ==
    /\ currentAnalysis = 0
    /\ aborted = [r \in Reqs |-> FALSE]
    /\ pc = [r \in Reqs |-> "idle"]
    /\ wantsStream = [r \in Reqs |-> FALSE]
    /\ chunks = [r \in Reqs |-> <<>>]
    /\ chunkIdx = [r \in Reqs |-> 0]
    /\ allClips = [r \in Reqs |-> <<>>]
    /\ chatCalls = [r \in Reqs |-> <<>>]
    /\ chatResults = [r \in Reqs |-> <<>>]
    /\ events = [r \in Reqs |-> <<>>]
    /\ reply = [r \in Reqs |-> [status |-> 0, clips |-> <<>>]]
    /\ cancelReply = "none"
    /\ progressLog = [r \in Reqs |-> <<>>]

ChunkIdle ==
    transcript = <<>> /\ maxChars = 0 /\ overlapSeconds = 0 /\ chunksOut = <<>>
RankIdle == pool = <<>> /\ overlapOut = <<>> /\ finalClips = <<>>
ValidIdle == clipIn = NoClip /\ serverValid = FALSE /\ clientValid = FALSE
ParseIdle ==
    /\ response = <<>> /\ timeOffset = 0
    /\ parsed = Return(<<>>) /\ clientParsed = Return(<<>>)
    /\ ollamaParsed = Return(<<>>)

(***************************************************************************)
(* SpecRank: removeOverlaps and the tail of analyzeTranscript applied to   *)
(* any pool of at most MaxClips clips.                                     *)
(***************************************************************************)
InitRank ==
    /\ op = "none"
    /\ pool \in SeqsUpTo(RankClips, MaxClips)
    /\ opts \in RankOptions
    /\ overlapOut = <<>> /\ finalClips = <<>>
    /\ ServerIdle /\ PanelIdle /\ PipeIdle /\ StreamIdle /\ WarmIdle /\ PromptIdle /\ ValidIdle /\ ParseIdle /\ ChunkIdle

ApplyRemoveOverlaps ==
    /\ op = "none"
    /\ op' = "removeOverlaps"
    /\ overlapOut' = removeOverlaps(pool)
    /\ UNCHANGED <<serverVars, panelVars, pipeVars, streamVars, warmVars, promptVars, chunkVars, opts, pool, finalClips, validVars, parseVars>>

ApplyRankAndFilter ==
    /\ op = "none"
    /\ op' = "analyzeTranscript"
    /\ finalClips' = RankAndFilter(pool, opts)
    /\ UNCHANGED <<serverVars, panelVars, pipeVars, streamVars, warmVars, promptVars, chunkVars, opts, pool, overlapOut, validVars, parseVars>>

NextRank == ApplyRemoveOverlaps \/ ApplyRankAndFilter

SpecRank == InitRank /\ [][NextRank]_vars

(***************************************************************************)
(* SpecValid: the two validators applied to any clip and options.          *)
(***************************************************************************)
InitValid ==
    /\ op = "none"
    /\ clipIn \in ValidClipInputs
    /\ opts \in ValidOptions
    /\ serverValid = FALSE /\ clientValid = FALSE
    /\ ServerIdle /\ PanelIdle /\ PipeIdle /\ StreamIdle /\ WarmIdle /\ PromptIdle /\ RankIdle /\ ParseIdle /\ ChunkIdle

ApplyIsValidClip ==
    /\ op = "none"
    /\ op' = "isValidClip"
    /\ serverValid' = isValidClip(clipIn, opts)
    /\ UNCHANGED <<serverVars, panelVars, pipeVars, streamVars, warmVars, promptVars, chunkVars, opts, rankVars, clipIn, clientValid, parseVars>>

\* openrouter-client.js 205: isValidClip(clip, { minClipDuration, maxClipDuration })
ApplyClientIsValidClip ==
    /\ op = "none"
    /\ op' = "OpenRouterClient.isValidClip"
    /\ clientValid' =
         OpenRouterClient_isValidClip(clipIn,
             [minClipDuration |-> opts.minClipDuration,
              maxClipDuration |-> opts.maxClipDuration])
    /\ UNCHANGED <<serverVars, panelVars, pipeVars, streamVars, warmVars, promptVars, chunkVars, opts, rankVars, clipIn, serverValid, parseVars>>

NextValid == ApplyIsValidClip \/ ApplyClientIsValidClip

SpecValid == InitValid /\ [][NextValid]_vars

(***************************************************************************)
(* SpecParse: parseClipsFromResponse applied to any response of at most    *)
(* MaxRespLen tokens.                                                      *)
(***************************************************************************)
InitParse ==
    /\ op = "none"
    /\ response \in SeqsUpTo(ResponseTokens, MaxRespLen)
    /\ timeOffset \in TimeOffsets
    /\ parsed = Return(<<>>) /\ clientParsed = Return(<<>>)
    /\ ollamaParsed = Return(<<>>)
    /\ opts = DEFAULT_OPTIONS
    /\ ServerIdle /\ PanelIdle /\ PipeIdle /\ StreamIdle /\ WarmIdle /\ PromptIdle /\ RankIdle /\ ValidIdle /\ ChunkIdle

ApplyParse ==
    /\ op = "none"
    /\ op' = "parseClipsFromResponse"
    /\ parsed' = parseClipsFromResponse(response, timeOffset)
    /\ UNCHANGED <<serverVars, panelVars, pipeVars, streamVars, warmVars, promptVars, chunkVars, opts, rankVars, validVars, response, timeOffset,
                   clientParsed, ollamaParsed>>

\* openrouter-client.js 195: this.parseClipsFromResponse(content)
ApplyClientParse ==
    /\ op = "none"
    /\ op' = "OpenRouterClient.parseClipsFromResponse"
    /\ clientParsed' = OpenRouterClient_parseClipsFromResponse(response)
    /\ UNCHANGED <<serverVars, panelVars, pipeVars, streamVars, warmVars, promptVars, chunkVars, opts, rankVars, validVars, response, timeOffset,
                   parsed, ollamaParsed>>

\* OllamaClient.analyzeTranscript: this.parseClipsFromResponse(contentToParse)
ApplyOllamaParse ==
    /\ op = "none"
    /\ op' = "OllamaClient.parseClipsFromResponse"
    /\ ollamaParsed' = OllamaClient_parseClipsFromResponse(response)
    /\ UNCHANGED <<serverVars, panelVars, pipeVars, streamVars, warmVars, promptVars, chunkVars, opts, rankVars, validVars, response, timeOffset,
                   parsed, clientParsed>>

NextParse == ApplyParse \/ ApplyClientParse \/ ApplyOllamaParse

SpecParse == InitParse /\ [][NextParse]_vars

(***************************************************************************)
(* SpecChunk: chunkTranscript applied to any transcript of at most         *)
(* MaxLines lines.                                                         *)
(***************************************************************************)
InitChunk ==
    /\ op = "none"
    /\ transcript \in SeqsUpTo(ChunkLines, MaxLines) \ {<<>>}
    /\ maxChars \in ChunkLimits
    /\ overlapSeconds \in OverlapChoices
    /\ chunksOut = <<>>
    /\ opts = DEFAULT_OPTIONS
    /\ ServerIdle /\ PanelIdle /\ PipeIdle /\ StreamIdle /\ WarmIdle /\ PromptIdle /\ RankIdle /\ ValidIdle /\ ParseIdle

ApplyChunkTranscript ==
    /\ op = "none"
    /\ op' = "chunkTranscript"
    /\ chunksOut' = chunkTranscript(transcript, maxChars, overlapSeconds)
    /\ UNCHANGED <<serverVars, panelVars, pipeVars, streamVars, warmVars, promptVars, opts, rankVars, validVars, parseVars, transcript,
                   maxChars, overlapSeconds>>

NextChunk == ApplyChunkTranscript

SpecChunk == InitChunk /\ [][NextChunk]_vars

(***************************************************************************)
(* SpecTiers: the tail of OpenRouterClient.analyzeTranscript applied to    *)
(* the pools of TierPools.                                                 *)
(***************************************************************************)
InitTiers ==
    /\ op = "none"
    /\ pool \in TierPools
    /\ opts = DEFAULT_OPTIONS
    /\ overlapOut = <<>> /\ finalClips = <<>>
    /\ ServerIdle /\ PanelIdle /\ PipeIdle /\ StreamIdle /\ WarmIdle /\ PromptIdle /\ ValidIdle /\ ParseIdle /\ ChunkIdle

\* openrouter-client.js 203-215
ApplySmartFilter ==
    /\ op = "none"
    /\ op' = "OpenRouterClient.analyzeTranscript"
    /\ overlapOut' = OpenRouterClient_removeOverlaps(
                         OpenRouterClient_validClips(pool, ClientOptions))
    /\ finalClips' = OpenRouterClient_selectClips(pool, ClientOptions)
    /\ UNCHANGED <<serverVars, panelVars, pipeVars, streamVars, warmVars, promptVars, chunkVars, opts, pool, validVars, parseVars>>

NextTiers == ApplySmartFilter

SpecTiers == InitTiers /\ [][NextTiers]_vars

(***************************************************************************)
(* SpecThink: the path from the model's output to the parsed clips, in the *)
(* server, the OpenRouter client and the Ollama client, applied to any     *)
(* response of at most MaxThinkLen tokens that may hold thinking tags.     *)
(***************************************************************************)
InitThink ==
    /\ op = "none"
    /\ response \in SeqsUpTo(ThinkTokens, MaxThinkLen)
    /\ timeOffset = 0
    /\ parsed = Return(<<>>) /\ clientParsed = Return(<<>>)
    /\ ollamaParsed = Return(<<>>)
    /\ opts = DEFAULT_OPTIONS
    /\ ServerIdle /\ PanelIdle /\ PipeIdle /\ StreamIdle /\ WarmIdle /\ PromptIdle /\ RankIdle /\ ValidIdle /\ ChunkIdle

\* OllamaClient.analyzeTranscript 411-424
ApplyOllamaContent ==
    /\ op = "none"
    /\ op' = "OllamaClient.contentToParse"
    /\ ollamaParsed' = OllamaClient_parseContent(response)
    /\ UNCHANGED <<serverVars, panelVars, pipeVars, streamVars, warmVars, promptVars, chunkVars, opts, rankVars, validVars, response, timeOffset,
                   parsed, clientParsed>>

NextThink == ApplyParse \/ ApplyClientParse \/ ApplyOllamaContent

SpecThink == InitThink /\ [][NextThink]_vars

(***************************************************************************)
(* SpecSegments: OpenRouterClient.parseClipsFromResponse applied to        *)
(* responses whose objects carry a `segments` array.                       *)
(***************************************************************************)
InitSegments ==
    /\ op = "none"
    /\ response \in SeqsUpTo(SegmentTokens, MaxRespLen)
    /\ timeOffset = 0
    /\ parsed = Return(<<>>) /\ clientParsed = Return(<<>>)
    /\ ollamaParsed = Return(<<>>)
    /\ opts = DEFAULT_OPTIONS
    /\ ServerIdle /\ PanelIdle /\ PipeIdle /\ StreamIdle /\ WarmIdle /\ PromptIdle /\ RankIdle /\ ValidIdle /\ ChunkIdle

NextSegments == ApplyClientParse

SpecSegments == InitSegments /\ [][NextSegments]_vars

(***************************************************************************)
(* SpecPanel: the panel's state machine around an analysis.  Each action   *)
(* is one event handler; a button acts only while the state that holds it  *)
(* is the active one (cacheElements 65-128 groups the buttons by state,    *)
(* setState 562-572 shows one state at a time).  The review and generate   *)
(* handlers do not touch the configuration or the clients and are left     *)
(* out.  op is "UIController.startAnalysis" right after that handler ran.  *)
(***************************************************************************)
InitPanel ==
    /\ ServerIdle /\ RankIdle /\ ValidIdle /\ ParseIdle /\ ChunkIdle
    /\ PipeIdle /\ StreamIdle /\ PromptIdle
    /\ op = "none"
    /\ opts = DEFAULT_OPTIONS
    /\ \E backend \in Backends, key \in {"", StoredKey},
          model \in {"", StoredModel} :
          UIController_init(backend, key, model)

OthersUnchanged ==
    UNCHANGED <<serverVars, opts, rankVars, validVars, parseVars, chunkVars,
                pipeVars, streamVars, promptVars>>

PanelUnchanged == OthersUnchanged /\ UNCHANGED <<reviewVars, warmVars>>

\* stopModelStatusPolling (359-369); startModelStatusPolling (341-354)
\* calls it and then sets the polling timer again
UIController_stopModelStatusPolling(pollAgain) ==
    /\ modelCheckInterval' = pollAgain
    /\ keepWarmInterval' = FALSE
    /\ liveTimers' = IF keepWarmInterval THEN liveTimers - 1 ELSE liveTimers
    /\ isKeepWarmActive' = FALSE
    /\ stopRan' = TRUE
    /\ UNCHANGED suspendedToggles

ConfigUnchanged == UNCHANGED <<currentBackend, apiKey, ollamaModel>>

\* the call getAIClient() receives at ui-controller.js 664-668
PanelClientCall(wasTruncated) ==
    IF UIController_getAIClient(currentBackend) = "OllamaClient"
    THEN OllamaClient_analyzeTranscript(ollamaModel, "panel")
    ELSE OpenRouterClient_analyzeTranscript(apiKey, "panel", wasTruncated)

\* startAnalysis without its first statement (648-652)
UIController_startAnalysis_noCheck(wasTruncated) ==
    LET call == PanelClientCall(wasTruncated)
    IN  /\ clientCalls' = Append(clientCalls, call)
        /\ currentState' = IF call.status = "threw" THEN "error"
                                                    ELSE "analyzing"

\* UIController.startAnalysis (647-668) up to its await.  A call that
\* rejects at once is caught at 727 before any other handler can run, so
\* the panel is then left in 'error'.
UIController_startAnalysis(wasTruncated) ==
    IF ~UIController_isBackendConfigured(currentBackend, apiKey, ollamaModel)
    THEN /\ currentState' = "settings"
         /\ UNCHANGED clientCalls
    ELSE LET call == PanelClientCall(wasTruncated)
         IN  /\ clientCalls' = Append(clientCalls, call)
             /\ currentState' = IF call.status = "threw" THEN "error"
                                                         ELSE "analyzing"

\* #analyze-btn (179) and #retry-btn (193).  MaxClientCalls caps the clicks
\* that go on to call the client.
ClickAnalyze ==
    /\ currentState \in {"setup", "error"}
    /\ UIController_isBackendConfigured(currentBackend, apiKey, ollamaModel)
          => Len(clientCalls) < MaxClientCalls
    /\ \E wasTruncated \in BOOLEAN : UIController_startAnalysis(wasTruncated)
    /\ op' = "UIController.startAnalysis"
    /\ UNCHANGED settingsPending
    /\ ConfigUnchanged /\ PanelUnchanged

\* Any other caller of the clients' public analyzeTranscript.
CallClient ==
    /\ Len(clientCalls) < MaxClientCalls
    /\ \E client \in {"OpenRouterClient", "OllamaClient"},
          wasTruncated \in BOOLEAN :
          clientCalls' = Append(clientCalls,
              IF client = "OllamaClient"
              THEN OllamaClient_analyzeTranscript(ollamaModel, "direct")
              ELSE OpenRouterClient_analyzeTranscript(apiKey, "direct",
                                                      wasTruncated))
    /\ op' = "none"
    /\ UNCHANGED <<currentState, settingsPending>>
    /\ ConfigUnchanged /\ PanelUnchanged

\* the clips call i returned: as many as done.clips, named after the call,
\* none of them approved, rejected or skipped yet
ClipsOfCall(i, done) ==
    [k \in 1..done.clips |-> [call |-> i, decision |-> "none"]]

\* The fetch of pending call i settles and the call runs to completion;
\* for the panel's own call, startAnalysis then resumes (668-745): a throw
\* shows 'error'; a result is stored in viralClips, and no clips show
\* 'error', anything else resets the review and shows 'review'.
FetchSettles ==
    /\ \E i \in 1..Len(clientCalls), outcome \in FetchOutcomes :
          /\ clientCalls[i].status = "pending"
          /\ LET call == clientCalls[i]
                 done == IF call.client = "OllamaClient"
                         THEN OllamaClient_afterFetch(call, outcome)
                         ELSE OpenRouterClient_afterFetch(call, outcome)
             IN  /\ clientCalls' = [clientCalls EXCEPT ![i] = done]
                 /\ IF call.caller # "panel"
                    THEN UNCHANGED <<currentState, reviewVars>>
                    ELSE IF done.status # "returned"
                    THEN currentState' = "error" /\ UNCHANGED reviewVars
                    ELSE /\ viralClips' = ClipsOfCall(i, done)
                         /\ IF done.clips = 0
                            THEN /\ currentState' = "error"
                                 /\ UNCHANGED <<approvedClips, currentClipIndex>>
                            ELSE /\ approvedClips' = <<>>
                                 /\ currentClipIndex' = 0
                                 /\ currentState' = "review"
    /\ op' = "none"
    /\ UNCHANGED settingsPending
    /\ ConfigUnchanged /\ OthersUnchanged /\ UNCHANGED warmVars

\* #cancel-analysis (199, 763-766): the request itself is not cancelled
ClickCancel ==
    /\ currentState = "analyzing"
    /\ currentState' = "setup"
    /\ op' = "none"
    /\ UNCHANGED <<settingsPending, clientCalls>>
    /\ ConfigUnchanged /\ PanelUnchanged

\* #back-to-setup (186) and #close-error (195)
ClickBackToSetup ==
    /\ currentState \in {"review", "error"}
    /\ currentState' = "setup"
    /\ op' = "none"
    /\ UNCHANGED <<settingsPending, clientCalls>>
    /\ ConfigUnchanged /\ PanelUnchanged

\* #settings-btn (176) and #fallback-btn (194)
ClickSettings ==
    /\ currentState \in {"setup", "error"}
    /\ currentState' = "settings"
    /\ op' = "none"
    /\ UNCHANGED <<settingsPending, clientCalls>>
    /\ ConfigUnchanged /\ PanelUnchanged

\* #back-from-settings (203-207)
ClickBackFromSettings ==
    /\ currentState = "settings"
    /\ currentState' =
          IF UIController_isBackendConfigured(currentBackend, apiKey,
                                              ollamaModel)
          THEN "setup" ELSE currentState
    /\ op' = "none"
    /\ UNCHANGED <<settingsPending, clientCalls>>
    /\ ConfigUnchanged /\ PanelUnchanged

\* UIController.selectBackend (244-274): selecting 'ollama' restarts the
\* model status polling and starts refreshOllamaModels, whose listModels
\* request is then in flight; selecting 'openrouter' stops the polling.
SelectBackend ==
    /\ currentState = "settings"
    /\ \E backend \in Backends :
          /\ currentBackend' = backend
          /\ UIController_stopModelStatusPolling(backend = "ollama")
          /\ settingsPending' = IF backend = "ollama"
                                THEN settingsPending \cup {"models"}
                                ELSE settingsPending
    /\ op' = "none"
    /\ UNCHANGED <<currentState, apiKey, ollamaModel, clientCalls, reviewVars>>
    /\ OthersUnchanged

\* #refresh-models-btn (225): refreshOllamaModels up to its await (298-308)
ClickRefreshModels ==
    /\ currentState = "settings"
    /\ currentBackend = "ollama"
    /\ settingsPending' = settingsPending \cup {"models"}
    /\ op' = "none"
    /\ UNCHANGED <<currentState, clientCalls>>
    /\ ConfigUnchanged /\ PanelUnchanged

\* refreshOllamaModels after listModels (308-321): the saved model is kept
\* when the list has it; otherwise the first model of a non-empty list is
\* stored.  listed = "" is the empty (or failed) list.
ModelsArrive ==
    /\ "models" \in settingsPending
    /\ settingsPending' = settingsPending \ {"models"}
    /\ \E listed \in ModelInputs, hasSaved \in BOOLEAN :
          ollamaModel' =
             IF ollamaModel # "" /\ listed # "" /\ hasSaved THEN ollamaModel
             ELSE IF listed # "" THEN listed
             ELSE ollamaModel
    /\ op' = "none"
    /\ UNCHANGED <<currentState, currentBackend, apiKey, clientCalls>>
    /\ PanelUnchanged

\* change of #ollama-model-select (226-228)
ChangeModel ==
    /\ currentState = "settings"
    /\ currentBackend = "ollama"
    /\ \E value \in ModelInputs : ollamaModel' = value
    /\ op' = "none"
    /\ UNCHANGED <<currentState, currentBackend, apiKey, settingsPending,
                   clientCalls>>
    /\ PanelUnchanged

\* UIController.saveSettings (451-503) up to its await on checkHealth
SaveSettings ==
    /\ currentState = "settings"
    /\ "health" \notin settingsPending
    /\ \E key \in KeyInputs, value \in ModelInputs :
          IF currentBackend = "ollama"
          THEN IF value = ""
               THEN UNCHANGED <<ollamaModel, apiKey, settingsPending>>
               ELSE /\ ollamaModel' = value
                    /\ settingsPending' = settingsPending \cup {"health"}
                    /\ UNCHANGED apiKey
          ELSE IF key = "" \/ ~StartsWithSkOr(key)
               THEN UNCHANGED <<ollamaModel, apiKey, settingsPending>>
               ELSE /\ apiKey' = key
                    /\ settingsPending' = settingsPending \cup {"health"}
                    /\ UNCHANGED ollamaModel
    /\ op' = "none"
    /\ UNCHANGED <<currentState, currentBackend, clientCalls>>
    /\ PanelUnchanged

\* saveSettings after checkHealth (475-485, 505-515): a healthy backend
\* shows 'setup' one second later, whatever the panel shows by then.
HealthArrives ==
    /\ "health" \in settingsPending
    /\ settingsPending' = settingsPending \ {"health"}
    /\ \E ok \in BOOLEAN :
          currentState' = IF ok THEN "setup" ELSE currentState
    /\ op' = "none"
    /\ UNCHANGED clientCalls
    /\ ConfigUnchanged /\ PanelUnchanged

NextPanel ==
    \/ ClickAnalyze \/ CallClient \/ FetchSettles \/ ClickCancel
    \/ ClickBackToSetup \/ ClickSettings \/ ClickBackFromSettings
    \/ SelectBackend \/ ClickRefreshModels \/ ModelsArrive \/ ChangeModel
    \/ SaveSettings \/ HealthArrives

SpecPanel == InitPanel /\ [][NextPanel]_vars

(***************************************************************************)
(* SpecPipeline: analyzeTranscript applied to any transcript of at most    *)
(* MaxSegments segments, with one scripted chat() reply per chunk.         *)
(***************************************************************************)
InitPipeline ==
    /\ op = "none"
    /\ opts \in PipeOptions
    /\ segments \in PipeSegments
    /\ chatScript \in [1..Len(AnalyzerChunks(segments)) -> PipeReplies]
    /\ ServerIdle /\ PanelIdle /\ RankIdle /\ ValidIdle /\ ParseIdle
    /\ ChunkIdle /\ StreamIdle /\ WarmIdle /\ PromptIdle

ApplyAnalyzeTranscript ==
    /\ op = "none"
    /\ op' = "analyzeTranscript"
    /\ LET formatted == formatTranscript(segments)
           chunkList == chunkTranscript(formatted, AnalyzerMaxChars,
                                        DefaultOverlapSeconds)
           allClipsEnd == AllClipsAfter(chunkList, chatScript, Len(chunkList))
       IN  /\ transcript' = formatted
           /\ maxChars' = AnalyzerMaxChars
           /\ overlapSeconds' = DefaultOverlapSeconds
           /\ chunksOut' = chunkList
           /\ pool' = allClipsEnd
           /\ finalClips' = RankAndFilter(allClipsEnd, opts)
    /\ UNCHANGED <<serverVars, panelVars, pipeVars, streamVars, warmVars, promptVars, opts, overlapOut,
                   validVars, parseVars>>

NextPipeline == ApplyAnalyzeTranscript

SpecPipeline == InitPipeline /\ [][NextPipeline]_vars

(***************************************************************************)
(* The server: POST /api/analyze (routes/analyze.ts 49-148) running        *)
(* analyzeTranscript (analyzer.ts 22-126), and POST /api/analyze/cancel    *)
(* (routes/analyze.ts 154-162).                                            *)
(*                                                                         *)
(* Node runs a handler without interruption up to its next await of I/O.   *)
(* The only such await is the chat() call of a chunk, so one action is the *)
(* code from one chat() settling to the next chat() being issued, or to    *)
(* the response being sent.                                                *)
(***************************************************************************)
ProgressEvent(p, found) ==
    [type |-> "progress", progress |-> p, momentsFound |-> found,
     clips |-> <<>>, error |-> ""]
CompleteEvent(clips) ==
    [type |-> "complete", progress |-> 0, momentsFound |-> 0,
     clips |-> clips, error |-> ""]
ErrorEvent(message) ==
    [type |-> "error", progress |-> 0, momentsFound |-> 0,
     clips |-> <<>>, error |-> message]

\* a transcript of n chunks; chunk j covers the seconds from (j-1)*ChunkSeconds
ChunkList(n) == [j \in 1..n |-> [startOffset |-> (j - 1) * ChunkSeconds]]

\* what chat() resolves to: the clip of the end-to-end scenario, with times
\* relative to the chunk
ChatResponses == {<<LB, Obj(Num(5), Num(35), Num(92)), RB>>}

\* chunkProgress * 0.9 with chunkProgress = ((i + 1) / chunks.length) * 100,
\* rounded down to a whole percent
ChunkProgress(i, n) == ((i + 1) * 100 * 9) \div (n * 10)

\* chunkProgress * 0.9 as the exact fraction (i + 1) * 100 * 9 / (n * 10)
Percent(num, den) == [num |-> num, den |-> den]
PercentLeq(a, b) == a.num * b.den <= b.num * a.den

chunkProgress_noReserve(i, n) == Percent((i + 1) * 100, n)

chunkProgress(i, n) == Percent((i + 1) * 100 * 9, n * 10)

\* analyzer.ts 51, 103, 114: onProgress?.(p, ...) calls the callback when the
\* route passed one, which only the streaming branch does
passProgress(r, log, p) == IF wantsStream[r] THEN Append(log, p) ELSE log

\* the onProgress callback of the streaming branch (routes/analyze.ts 95-104);
\* the JSON branch passes no callback
onProgress(r, evs, p, found) ==
    IF wantsStream[r] /\ ~aborted[r]
    THEN Append(evs, ProgressEvent(p, found))
    ELSE evs

\* routes/analyze.ts 107-113 and 124-132: the response of a finished
\* analysis, as [events, reply]
SendResult_ignoresAbort(r, evs, clips) ==
    IF wantsStream[r]
    THEN [events |-> Append(evs, CompleteEvent(clips)),
          reply |-> [status |-> 200, clips |-> <<>>]]
    ELSE [events |-> evs, reply |-> [status |-> 200, clips |-> clips]]

\* the catch block writing its event after the response was written
SendResult_catchWritesToo(r, evs, clips) ==
    IF wantsStream[r]
    THEN [events |-> Append(Append(evs, IF aborted[r]
                                        THEN ErrorEvent("Analysis cancelled")
                                        ELSE CompleteEvent(clips)),
                            ErrorEvent("write after end")),
          reply |-> [status |-> 200, clips |-> <<>>]]
    ELSE IF aborted[r]
         THEN [events |-> evs, reply |-> [status |-> 499, clips |-> <<>>]]
         ELSE [events |-> evs, reply |-> [status |-> 200, clips |-> clips]]

SendResult(r, evs, clips) ==
    IF wantsStream[r]
    THEN [events |-> Append(evs, IF aborted[r]
                                 THEN ErrorEvent("Analysis cancelled")
                                 ELSE CompleteEvent(clips)),
          reply |-> [status |-> 200, clips |-> <<>>]]
    ELSE IF aborted[r]
         THEN [events |-> evs, reply |-> [status |-> 499, clips |-> <<>>]]
         ELSE [events |-> evs, reply |-> [status |-> 200, clips |-> clips]]

\* routes/analyze.ts 135-147: analyzeTranscript threw
FailRequest(r, results) ==
    /\ events' = [events EXCEPT ![r] =
                    IF wantsStream[r]
                    THEN Append(@, ErrorEvent("chat failed")) ELSE @]
    /\ reply' = [reply EXCEPT ![r] =
                    [status |-> IF wantsStream[r] THEN 200 ELSE 500,
                     clips |-> <<>>]]
    /\ chatResults' = [chatResults EXCEPT ![r] = results]
    /\ currentAnalysis' = 0
    /\ pc' = [pc EXCEPT ![r] = "done"]
    /\ UNCHANGED <<aborted, wantsStream, chunks, chunkIdx, allClips, chatCalls,
                   cancelReply, progressLog>>

\* analyzer.ts 100-126 and 47-77: the loop after the chat() call of chunk
\* chunkIdx[r] has settled with the pool now newPool: either the next chunk's
\* progress event and chat() call, or the ranking and the response, after
\* which the finally block clears currentAnalysis.
Continue(r, newPool, results) ==
    LET i == chunkIdx[r] + 1
        n == Len(chunks[r])
    IN /\ allClips' = [allClips EXCEPT ![r] = newPool]
       /\ chatResults' = [chatResults EXCEPT ![r] = results]
       /\ chunkIdx' = [chunkIdx EXCEPT ![r] = i]
       /\ IF i < n
          THEN /\ events' = [events EXCEPT ![r] =
                     onProgress(r, @, ChunkProgress(i, n), Len(newPool))]
               /\ progressLog' = [progressLog EXCEPT ![r] =
                     passProgress(r, @, chunkProgress(i, n))]
               /\ chatCalls' = [chatCalls EXCEPT ![r] = Append(@, i)]
               /\ UNCHANGED <<pc, reply, currentAnalysis>>
          ELSE LET ranked == RankAndFilter(newPool, opts)
                   evs95 == onProgress(r, events[r], 95, Len(newPool))
                   evs100 == onProgress(r, evs95, 100, Len(ranked))
                   sent == SendResult(r, evs100, ranked)
               IN /\ events' = [events EXCEPT ![r] = sent.events]
                  /\ progressLog' = [progressLog EXCEPT ![r] =
                        passProgress(r, passProgress(r, @, Percent(95, 1)),
                                     Percent(100, 1))]
                  /\ reply' = [reply EXCEPT ![r] = sent.reply]
                  /\ currentAnalysis' = 0
                  /\ pc' = [pc EXCEPT ![r] = "done"]
                  /\ UNCHANGED chatCalls
       /\ UNCHANGED <<aborted, wantsStream, chunks, cancelReply>>

\* requests are numbered in their order of arrival
Arrived(r) == IF r = 1 THEN TRUE ELSE pc[r - 1] # "idle"

\* The model stops issuing chat() calls after MaxCalls of them: no request
\* starts then, and a pending call settles only if it is the last of its
\* request (chat() has no timeout, so a call may stay pending for ever).
RECURSIVE SumCalls(_)
SumCalls(r) == IF r = 0 THEN 0 ELSE Len(chatCalls[r]) + SumCalls(r - 1)
TotalCalls == SumCalls(MaxReqs)
MayIssue(r) == TotalCalls < MaxCalls \/ chunkIdx[r] + 1 >= Len(chunks[r])

\* routes/analyze.ts 53-57: no segments, 400, nothing else is touched
RejectRequest(r) ==
    /\ pc[r] = "idle"
    /\ Arrived(r)
    /\ pc' = [pc EXCEPT ![r] = "done"]
    /\ reply' = [reply EXCEPT ![r] = [status |-> 400, clips |-> <<>>]]
    /\ UNCHANGED <<currentAnalysis, aborted, wantsStream, chunks, chunkIdx,
                   allClips, chatCalls, chatResults, events, cancelReply,
                   progressLog>>

\* routes/analyze.ts 59-105 / 119-122 with analyzer.ts 27-77: a valid
\* request installs its AbortController and runs analyzeTranscript up to the
\* chat() call of the first chunk.  Requests arrive in the order 1, 2, ...
StartAnalysis(r, stream, n) ==
    /\ pc[r] = "idle"
    /\ TotalCalls < MaxCalls
    /\ Arrived(r)
    /\ currentAnalysis' = r
    /\ wantsStream' = [wantsStream EXCEPT ![r] = stream]
    /\ chunks' = [chunks EXCEPT ![r] = ChunkList(n)]
    /\ chunkIdx' = [chunkIdx EXCEPT ![r] = 0]
    /\ allClips' = [allClips EXCEPT ![r] = <<>>]
    /\ events' = [events EXCEPT ![r] =
                    IF stream THEN <<ProgressEvent(ChunkProgress(0, n), 0)>>
                    ELSE <<>>]
    /\ progressLog' = [progressLog EXCEPT ![r] =
                         IF stream THEN <<chunkProgress(0, n)>> ELSE <<>>]
    /\ chatCalls' = [chatCalls EXCEPT ![r] = <<0>>]
    /\ pc' = [pc EXCEPT ![r] = "chat"]
    /\ UNCHANGED <<aborted, chatResults, reply, cancelReply>>

\* routes/analyze.ts 53-72 and 135-147 with analyzer.ts 38, 131-135: a segments
\* array that holds null passes the validation, formatTranscript throws on
\* seg.start before any progress callback, and the catch block answers; the
\* finally block clears currentAnalysis.
AnalysisThrows(r, stream) ==
    /\ pc[r] = "idle"
    /\ Arrived(r)
    /\ wantsStream' = [wantsStream EXCEPT ![r] = stream]
    /\ events' = [events EXCEPT ![r] =
                    IF stream THEN <<ErrorEvent("formatTranscript threw")>>
                    ELSE <<>>]
    /\ reply' = [reply EXCEPT ![r] =
                    [status |-> IF stream THEN 200 ELSE 500, clips |-> <<>>]]
    /\ currentAnalysis' = 0
    /\ pc' = [pc EXCEPT ![r] = "done"]
    /\ UNCHANGED <<aborted, chunks, chunkIdx, allClips, chatCalls, chatResults,
                   cancelReply, progressLog>>

\* analyzer.ts 74-89: chat() resolved with resp
ChatReturns(r, resp) ==
    /\ pc[r] = "chat"
    /\ MayIssue(r)
    /\ LET chunk == chunks[r][chunkIdx[r] + 1]
           clips == parseClipsFromResponse(resp, chunk.startOffset)
           results == Append(chatResults[r], [threw |-> FALSE, response |-> resp])
       IN IF clips.type = "throw"
          THEN Continue(r, allClips[r], results)
          ELSE Continue(r, allClips[r] \o clips.value, results)

\* a loop that asks again for the chunk whose call was rejected
ChatThrows_retries(r) ==
    /\ pc[r] = "chat"
    /\ TotalCalls < MaxCalls
    /\ chatResults' = [chatResults EXCEPT ![r] =
                          Append(@, [threw |-> TRUE, response |-> <<>>])]
    /\ chatCalls' = [chatCalls EXCEPT ![r] = Append(@, chunkIdx[r])]
    /\ UNCHANGED <<currentAnalysis, aborted, pc, wantsStream, chunks, chunkIdx,
                   allClips, events, reply, cancelReply, progressLog>>

\* the catch block missing: the rejection leaves analyzeTranscript
ChatThrows_propagates(r) ==
    /\ pc[r] = "chat"
    /\ FailRequest(r, Append(chatResults[r], [threw |-> TRUE, response |-> <<>>]))

\* analyzer.ts 91-100: chat() rejected; logged, and the loop goes on
ChatThrows(r) ==
    /\ pc[r] = "chat"
    /\ MayIssue(r)
    /\ Continue(r, allClips[r],
                Append(chatResults[r], [threw |-> TRUE, response |-> <<>>]))

\* routes/analyze.ts 154-162
Cancel ==
    /\ IF currentAnalysis # 0
       THEN /\ aborted' = [aborted EXCEPT ![currentAnalysis] = TRUE]
            /\ cancelReply' = "cancelled: true"
       ELSE /\ cancelReply' = "cancelled: false"
            /\ UNCHANGED aborted
    /\ UNCHANGED <<currentAnalysis, pc, wantsStream, chunks, chunkIdx, allClips,
                   chatCalls, chatResults, events, reply, progressLog>>

Init ==
    /\ ServerIdle /\ PanelIdle /\ PipeIdle /\ StreamIdle /\ WarmIdle /\ PromptIdle
    /\ op = "none"
    /\ opts = DEFAULT_OPTIONS
    /\ RankIdle /\ ValidIdle /\ ParseIdle /\ ChunkIdle

PureUnchanged ==
    UNCHANGED <<op, opts, rankVars, validVars, parseVars, chunkVars, panelVars,
                pipeVars, streamVars, warmVars, promptVars>>

Reject == PureUnchanged /\ \E r \in Reqs : RejectRequest(r)

Start ==
    /\ PureUnchanged
    /\ \E r \in Reqs, stream \in BOOLEAN, n \in 1..MaxChunks :
          StartAnalysis(r, stream, n)

ChatOk ==
    /\ PureUnchanged
    /\ \E r \in Reqs, resp \in ChatResponses : ChatReturns(r, resp)

ChatFail == PureUnchanged /\ \E r \in Reqs : ChatThrows(r)

CancelRequest == PureUnchanged /\ Cancel

Throws ==
    /\ PureUnchanged
    /\ \E r \in Reqs, stream \in BOOLEAN : AnalysisThrows(r, stream)

Next == Reject \/ Start \/ ChatOk \/ ChatFail \/ CancelRequest \/ Throws

Spec == Init /\ [][Next]_vars

(***************************************************************************)
(* Properties of the server (Spec).                                        *)
(***************************************************************************)
ProgressCount(evs) == Cardinality({i \in 1..Len(evs) : evs[i].type = "progress"})

\* the clips a finished request handed to its caller
ReturnedClips(r) ==
    IF wantsStream[r]
    THEN (IF events[r] # <<>> THEN events[r][Len(events[r])].clips ELSE <<>>)
    ELSE reply[r].clips

\* C1 as claimed: once POST /cancel has aborted the analysis of a request,
\* no further chat() call is issued for that request.
C1_NoChatAfterCancel ==
    [][\A r \in Reqs : aborted[r] => chatCalls'[r] = chatCalls[r]]_vars

\* C2: a request aborted before its final response ends with a cancellation
\* result (the 'Analysis cancelled' event when streaming, status 499
\* otherwise), never with a 'complete' event or a clips body, and no
\* 'progress' event is written for it after the abort.
C2_AbortedRequestEndsCancelled ==
    /\ [](\A r \in Reqs :
            (pc[r] = "done" /\ aborted[r]) =>
                IF wantsStream[r]
                THEN /\ events[r] # <<>>
                     /\ events[r][Len(events[r])] = ErrorEvent("Analysis cancelled")
                     /\ \A i \in 1..Len(events[r]) : events[r][i].type # "complete"
                ELSE reply[r].status = 499 /\ reply[r].clips = <<>>)
    /\ [][\A r \in Reqs :
            aborted[r] => ProgressCount(events'[r]) = ProgressCount(events[r])]_vars

\* C2 witness: a streaming request of three chunks, aborted while its first
\* chat() call was pending, has finished.
C2_Witness ==
    \E r \in Reqs :
        /\ pc[r] = "done" /\ aborted[r] /\ wantsStream[r]
        /\ Len(chunks[r]) = 3
        /\ ProgressCount(events[r]) = 1
        /\ events[r][Len(events[r])].type = "error"

\* the pool the settled chat() calls of r should have left: the clips parsed
\* from every call that resolved, in chunk order
RECURSIVE PoolOfSettled(_, _)
PoolOfSettled(r, k) ==
    IF k = 0 THEN <<>>
    ELSE PoolOfSettled(r, k - 1) \o
         (IF chatResults[r][k].threw THEN <<>>
          ELSE parseClipsFromResponse(chatResults[r][k].response,
                                      chunks[r][k].startOffset).value)

\* C3: a chat() call that throws does not end analyzeTranscript: chat() is
\* issued for every chunk, in order, whatever calls failed; the pool holds the
\* clips parsed from every call that resolved; and the request, once its
\* transcript was formatted and chunked, is answered with the ranking of that
\* pool, not with an error.
C3_FailedChunkIsSkipped ==
    \A r \in Reqs :
        /\ chatCalls[r] = [j \in 1..Len(chatCalls[r]) |-> j - 1]
        /\ pc[r] = "chat" => Len(chatCalls[r]) = Len(chatResults[r]) + 1
        /\ allClips[r] = PoolOfSettled(r, Len(chatResults[r]))
        /\ (pc[r] = "done" /\ reply[r].status # 400 /\ chunks[r] # <<>>) =>
              /\ Len(chatCalls[r]) = Len(chunks[r])
              /\ Len(chatResults[r]) = Len(chunks[r])
              /\ reply[r].status \in {200, 499}
              /\ ~aborted[r] => ReturnedClips(r) = RankAndFilter(allClips[r], opts)

\* C3 witness: the first chat() call of a request threw, the second resolved,
\* and the request was answered with clips.
C3_Witness ==
    \E r \in Reqs :
        /\ pc[r] = "done" /\ ~aborted[r]
        /\ Len(chatResults[r]) >= 2
        /\ chatResults[r][1].threw /\ ~chatResults[r][2].threw
        /\ ReturnedClips(r) # <<>>

(***************************************************************************)
(* Properties of the ranking and of removeOverlaps (SpecRank).             *)
(***************************************************************************)
\* the half-open interval test of two clips
HalfOpenOverlap(a, b) == a.startTime < b.endTime /\ a.endTime > b.startTime

\* C4: no two distinct clips of the list analyzeTranscript returns overlap
\* in time: not (a.startTime < b.endTime and a.endTime > b.startTime).
C4_ReturnedClipsDoNotOverlap ==
    op = "analyzeTranscript" =>
        \A i, j \in 1..Len(finalClips) :
            i # j => ~HalfOpenOverlap(finalClips[i], finalClips[j])

\* C4 witness: a pool with two valid clips that overlap and a result of two
\* clips.
C4_Witness ==
    /\ op = "analyzeTranscript"
    /\ Len(finalClips) >= 2
    /\ \E i, j \in 1..Len(pool) :
          /\ i # j
          /\ isValidClip(pool[i], opts) /\ isValidClip(pool[j], opts)
          /\ HalfOpenOverlap(pool[i], pool[j])

\* the reference resolver: scan in order, accept a clip iff the half-open
\* test is false against every clip accepted so far
RECURSIVE ReferenceResolver(_, _)
ReferenceResolver(clips, accepted) ==
    IF clips = <<>> THEN accepted
    ELSE LET c == Head(clips) IN
         ReferenceResolver(Tail(clips),
             IF \E i \in 1..Len(accepted) : HalfOpenOverlap(c, accepted[i])
             THEN accepted ELSE Append(accepted, c))

\* C5: on every list of clips with endTime > startTime, removeOverlaps
\* returns the list of the reference half-open greedy resolver; the list
\* (0,10,90),(5,15,80),(20,30,70) gives (0,10,90),(20,30,70).
C5_RemoveOverlapsIsHalfOpenGreedy ==
    /\ (op = "removeOverlaps"
        /\ \A i \in 1..Len(pool) : pool[i].endTime > pool[i].startTime)
       => overlapOut = ReferenceResolver(pool, <<>>)
    /\ op = "removeOverlaps" =>
         removeOverlaps(<<Clip(0, 10, 90), Clip(5, 15, 80), Clip(20, 30, 70)>>)
           = <<Clip(0, 10, 90), Clip(20, 30, 70)>>

\* C5 witness: two clips that only touch are both kept, next to one that is
\* dropped for overlapping.
C5_Witness ==
    /\ op = "removeOverlaps"
    /\ \A i \in 1..Len(pool) : pool[i].endTime > pool[i].startTime
    /\ Len(pool) = 3 /\ Len(overlapOut) = 2
    /\ overlapOut[1].endTime = overlapOut[2].startTime

\* C6 as claimed: the result is the first targetCount clips of
\* dedupe(rank(valid clips)), the truncation coming after the overlap removal.
C6_TruncationAfterDedupe ==
    op = "analyzeTranscript" =>
        finalClips =
            Take(removeOverlaps(SortByScore(ValidClips(pool, opts))),
                 opts.targetCount)

(***************************************************************************)
(* Properties of the validators (SpecValid).                               *)
(***************************************************************************)
Duration(clip) == clip.endTime - clip.startTime

\* C7: isValidClip rejects every clip with duration below minClipDuration or
\* above maxClipDuration, with startTime < 0 or with endTime <= startTime,
\* and accepts a clip (of a score the validator lets through) whose duration
\* is exactly minClipDuration or exactly maxClipDuration.
C7_DurationBoundsInclusive ==
    LET d == Duration(clipIn)
        outside == \/ d < opts.minClipDuration
                   \/ d > opts.maxClipDuration
                   \/ clipIn.startTime < 0
                   \/ clipIn.endTime <= clipIn.startTime
        onBoundary == /\ (d = opts.minClipDuration \/ d = opts.maxClipDuration)
                      /\ ~outside
    IN /\ op = "isValidClip" =>
            /\ outside => ~serverValid
            /\ (onBoundary /\ clipIn.viralScore >= ServerScoreThreshold)
                 => serverValid
       /\ op = "OpenRouterClient.isValidClip" =>
            /\ outside => ~clientValid
            /\ (onBoundary /\ clipIn.viralScore >= ClientScoreThreshold)
                 => clientValid

\* C7 witness: a clip of duration exactly minClipDuration, shorter than
\* maxClipDuration, was accepted by the server validator.
C7_Witness ==
    /\ op = "isValidClip"
    /\ serverValid
    /\ Duration(clipIn) = opts.minClipDuration
    /\ Duration(clipIn) < opts.maxClipDuration

\* C8 as claimed: with minViralScore = m in the options, an otherwise valid
\* clip is kept iff viralScore >= m (m = 0 switches the score filter off).
C8_ScoreFilterFollowsOptions ==
    LET d == Duration(clipIn)
        otherwiseValid == /\ d >= opts.minClipDuration
                          /\ d <= opts.maxClipDuration
                          /\ clipIn.startTime >= 0
                          /\ clipIn.endTime > clipIn.startTime
        kept == otherwiseValid /\ clipIn.viralScore >= opts.minViralScore
    IN /\ op = "isValidClip" => (serverValid <=> kept)
       /\ op = "OpenRouterClient.isValidClip" => (clientValid <=> kept)

(***************************************************************************)
(* Properties of parseClipsFromResponse (SpecParse).                       *)
(***************************************************************************)
\* a response that is exactly one JSON array of objects with numeric fields
IsPlainClipArray(resp) ==
    /\ Len(resp) >= 2
    /\ resp[1] = LB /\ resp[Len(resp)] = RB
    /\ \A i \in 2..(Len(resp) - 1) :
          resp[i].k = "object" /\ HasNumericFields(resp[i])

ExpectedScore(v) == IF v > 100 THEN 100 ELSE IF v < 0 THEN 0 ELSE v

\* the scores of a parser's result: all in [0, 100], and on a plain array of
\* clips each one is the model's value brought into that range
ScoresClampedIn(clips) ==
    /\ \A i \in 1..Len(clips) :
          clips[i].viralScore >= 0 /\ clips[i].viralScore <= 100
    /\ IsPlainClipArray(response) =>
          /\ Len(clips) = Len(response) - 2
          /\ \A i \in 1..Len(clips) :
                clips[i].viralScore = ExpectedScore(response[i + 1].viralScore.v)

\* C9: every clip parseClipsFromResponse returns (server and OpenRouter
\* client) has 0 <= viralScore <= 100; a model value above 100 is stored as
\* 100, one below 0 as 0, one inside the range unchanged.
C9_ScoresClamped ==
    /\ op = "parseClipsFromResponse" => ScoresClampedIn(parsed.value)
    /\ op = "OpenRouterClient.parseClipsFromResponse" =>
          ScoresClampedIn(clientParsed.value)

\* C9 witness: a response with a score of 150 and a score of -5 was parsed
\* into a clip of score 100 and a clip of score 0.
C9_Witness ==
    /\ op = "parseClipsFromResponse"
    /\ IsPlainClipArray(response)
    /\ \E i \in 2..(Len(response) - 1) : response[i].viralScore.v = 150
    /\ \E i \in 2..(Len(response) - 1) : response[i].viralScore.v = -5
    /\ \E i \in 1..Len(parsed.value) : parsed.value[i].viralScore = 100
    /\ \E i \in 1..Len(parsed.value) : parsed.value[i].viralScore = 0

\* no "[" followed by a "]" (nothing to extract), or the text from the first
\* "[" to the last "]" is not one JSON array
NoJsonArray(resp) ==
    \/ \A i, j \in 1..Len(resp) : ~(i < j /\ resp[i].k = "[" /\ resp[j].k = "]")
    \/ JSON_parse(jsonMatch(resp)).type = "throw"

\* C10: parseClipsFromResponse (server and OpenRouter client) never throws:
\* it returns an array for every response, and the empty array when no JSON
\* array can be extracted or parsed.
C10_ParseNeverThrows ==
    /\ op = "parseClipsFromResponse" =>
          /\ parsed.type = "return"
          /\ NoJsonArray(response) => parsed.value = <<>>
    /\ op = "OpenRouterClient.parseClipsFromResponse" =>
          /\ clientParsed.type = "return"
          /\ NoJsonArray(response) => clientParsed.value = <<>>

\* C10 witness: an array holding null next to a well-formed clip (reading
\* null.startTime throws inside the function) was answered with [].
C10_Witness ==
    /\ op = "parseClipsFromResponse"
    /\ Len(response) = 4
    /\ response[1] = LB /\ response[2] = NULL /\ response[4] = RB
    /\ response[3].k = "object" /\ HasNumericFields(response[3])
    /\ parsed = Return(<<>>)

\* a response that is exactly one JSON array of objects whose three fields
\* are numbers or numeric strings
IsCoercibleClipArray(resp) ==
    /\ Len(resp) >= 2
    /\ resp[1] = LB /\ resp[Len(resp)] = RB
    /\ \A i \in 2..(Len(resp) - 1) :
          /\ resp[i].k = "object"
          /\ resp[i].startTime.t \in {"number", "string"}
          /\ resp[i].endTime.t \in {"number", "string"}
          /\ resp[i].viralScore.t \in {"number", "string"}

\* every element of such an array is returned, its fields as numbers
ReturnsCoerced(clips, offset) ==
    IsCoercibleClipArray(response) =>
        /\ Len(clips) = Len(response) - 2
        /\ \A i \in 1..Len(clips) :
              /\ clips[i].startTime = response[i + 1].startTime.v + offset
              /\ clips[i].endTime = response[i + 1].endTime.v + offset
              /\ clips[i].viralScore = ExpectedScore(response[i + 1].viralScore.v)

\* C11 as claimed: a clip whose startTime, endTime and viralScore are numeric
\* strings is converted to numbers and returned, by the server parser and by
\* each client parser.
C11_NumericStringsAccepted ==
    /\ op = "parseClipsFromResponse" => ReturnsCoerced(parsed.value, timeOffset)
    /\ op = "OpenRouterClient.parseClipsFromResponse" =>
          ReturnsCoerced(clientParsed.value, 0)
    /\ op = "OllamaClient.parseClipsFromResponse" =>
          ReturnsCoerced(ollamaParsed.value, 0)

(***************************************************************************)
(* Properties of the progress reports of analyzeTranscript (Spec).         *)
(***************************************************************************)
\* C13: the percentages analyzeTranscript passes to onProgress never
\* decrease, each per-chunk value (one per chat() call issued) is at most 90,
\* and the last value of a finished run is 100.
C13_ProgressMonotoneEndingAt100 ==
    \A r \in Reqs :
        LET log == progressLog[r] IN
        /\ \A k \in 1..(Len(log) - 1) : PercentLeq(log[k], log[k + 1])
        /\ \A k \in 1..Min(Len(log), Len(chatCalls[r])) :
              PercentLeq(log[k], Percent(90, 1))
        /\ (pc[r] = "done" /\ wantsStream[r] /\ chunks[r] # <<>>) =>
              /\ Len(log) = Len(chunks[r]) + 2
              /\ PercentLeq(log[Len(log)], Percent(100, 1))
              /\ PercentLeq(Percent(100, 1), log[Len(log)])

\* C13 witness: a streamed run over MaxChunks chunks, one of whose chat()
\* calls failed, has finished after reporting 30, 60, 90 (for three chunks),
\* 95 and 100.
C13_Witness ==
    \E r \in Reqs :
        /\ pc[r] = "done" /\ wantsStream[r]
        /\ Len(chunks[r]) = MaxChunks
        /\ \E k \in 1..Len(chatResults[r]) : chatResults[r][k].threw
        /\ Len(progressLog[r]) = MaxChunks + 2
        /\ progressLog[r][MaxChunks] = Percent(MaxChunks * 900, MaxChunks * 10)
        /\ progressLog[r][MaxChunks + 2] = Percent(100, 1)

\* the caller of request r was given an error: an 'error' event closes the
\* stream, or the JSON response has an error status
IsErrorResult(r) ==
    IF wantsStream[r]
    THEN events[r] # <<>> /\ events[r][Len(events[r])].type = "error"
    ELSE reply[r].status >= 400

\* C18 as claimed, for the server endpoint: when an analysis that was not
\* cancelled completes with zero clips surviving validation and overlap
\* removal, the caller receives an error result and not a successful result
\* with an empty clip list.  (No result of the route has a field for the raw
\* model output, so that half of the claim has nothing to be stated on.)
C18_ZeroClipsIsAnError ==
    \A r \in Reqs :
        (/\ pc[r] = "done" /\ chunks[r] # <<>>
         /\ Len(chatResults[r]) = Len(chunks[r])
         /\ ~aborted[r]
         /\ RankAndFilter(allClips[r], opts) = <<>>)
        => IsErrorResult(r)

(***************************************************************************)
(* Properties of the handling of thinking blocks (SpecThink).              *)
(***************************************************************************)
\* the position of the closing tag of a response that is one thinking block
\* followed by one plain JSON array of clips, 0 for any other response
ThinkBlockEnd(resp) ==
    LET closes == Positions(resp, "</think>") IN
    IF /\ Len(resp) >= 4
       /\ resp[1] = THINK_OPEN
       /\ Positions(resp, "<think>") = {1}
       /\ Cardinality(closes) = 1
    THEN LET c == SetMin(closes) IN
         IF IsPlainClipArray(SubSeq(resp, c + 1, Len(resp))) THEN c ELSE 0
    ELSE 0

\* the clips are those of the array that follows the thinking block
ReturnsClipsAfterThink(result) ==
    LET c == ThinkBlockEnd(response) IN
    c > 0 =>
        /\ result.type = "return"
        /\ Len(result.value) = Len(response) - c - 2
        /\ \A i \in 1..Len(result.value) :
              /\ result.value[i].startTime = response[c + 1 + i].startTime.v
              /\ result.value[i].endTime = response[c + 1 + i].endTime.v

\* C12 as claimed: a thinking block followed by a valid JSON array yields the
\* clips of that array whatever the reasoning text holds, "[" and "]"
\* included, in the server pipeline and in each client.
C12_ThinkingBlockDiscarded ==
    /\ op = "parseClipsFromResponse" => ReturnsClipsAfterThink(parsed)
    /\ op = "OpenRouterClient.parseClipsFromResponse" =>
          ReturnsClipsAfterThink(clientParsed)
    /\ op = "OllamaClient.contentToParse" => ReturnsClipsAfterThink(ollamaParsed)

(***************************************************************************)
(* Properties of chunkTranscript (SpecChunk).                              *)
(***************************************************************************)
\* transcript === ''
IsEmptyTranscript(lines) == lines = <<EmptyLine>>

\* C14 as claimed: chunkTranscript returns [] for the empty transcript and at
\* least one chunk for every non-empty transcript.
C14_EmptyListOnlyForEmptyInput ==
    op = "chunkTranscript" =>
        (chunksOut = <<>> <=> IsEmptyTranscript(transcript))

\* C15 as claimed: every chunk has text.length <= maxChars unless the chunk
\* is a single line that alone is longer than maxChars.
C15_ChunkSizeBound ==
    op = "chunkTranscript" =>
        \A i \in 1..Len(chunksOut) :
            \/ JoinedLength(chunksOut[i].text) <= maxChars
            \/ Len(chunksOut[i].text) = 1

\* the line occurs in the text
AppearsIn(line, text) == \E k \in 1..Len(text) : text[k] = line

\* C16 as claimed: with two or more chunks, every labelled line of chunk i
\* whose time is within overlapSeconds before the time at which chunk i was
\* closed (its endOffset) also appears in chunk i+1.
C16_OverlapLinesCarried ==
    op = "chunkTranscript" =>
        \A i \in 1..(Len(chunksOut) - 1) :
            \A k \in 1..Len(chunksOut[i].text) :
                LET line == chunksOut[i].text[k] IN
                (/\ timeMatch(line)
                 /\ LabelSeconds(line) <= chunksOut[i].endOffset
                 /\ chunksOut[i].endOffset - LabelSeconds(line) <= overlapSeconds)
                => AppearsIn(line, chunksOut[i + 1].text)

\* the labels of the transcript never go back in time
AscendingTimestamps(lines) ==
    \A a, b \in 1..Len(lines) :
        (a < b /\ timeMatch(lines[a]) /\ timeMatch(lines[b]))
        => LabelSeconds(lines[a]) <= LabelSeconds(lines[b])

LabelledTimes(lines) ==
    {LabelSeconds(lines[k]) : k \in {j \in 1..Len(lines) : timeMatch(lines[j])}}

\* C17: on a transcript with ascending timestamps the ranges
\* [startOffset, endOffset] leave no gap: the first chunk starts at 0, each
\* later chunk starts no later than the previous chunk ends, and the last
\* chunk ends at the last timestamp of the transcript.
C17_ChunkRangesLeaveNoGap ==
    (op = "chunkTranscript" /\ AscendingTimestamps(transcript)
     /\ chunksOut # <<>>) =>
        /\ chunksOut[1].startOffset = 0
        /\ \A i \in 2..Len(chunksOut) :
              chunksOut[i].startOffset <= chunksOut[i - 1].endOffset
        /\ LabelledTimes(transcript) # {} =>
              chunksOut[Len(chunksOut)].endOffset = SetMax(LabelledTimes(transcript))

\* C17 witness: a transcript with ascending timestamps up to 1:10 was split
\* into three chunks, the last ending at 70 seconds.
C17_Witness ==
    /\ op = "chunkTranscript"
    /\ AscendingTimestamps(transcript)
    /\ Len(chunksOut) = 3
    /\ \A k \in 1..Len(transcript) : timeMatch(transcript[k])
    /\ chunksOut[1].endOffset < chunksOut[3].endOffset
    /\ chunksOut[3].endOffset = 70

(***************************************************************************)
(* Properties of the tiered policy (SpecTiers).                            *)
(***************************************************************************)
SeqElems(q) == {q[i] : i \in 1..Len(q)}

ClientLacksCredential(client) ==
    IF client = "OllamaClient" THEN ollamaModel = "" ELSE apiKey = ""

BackendLacksCredential ==
    ClientLacksCredential(IF currentBackend = "ollama" THEN "OllamaClient"
                                                       ELSE "OpenRouterClient")

ThrewWithNothingSent(call) ==
    call.status = "threw" /\ call.progress = <<>> /\ call.requests = 0

\* a call made without a credential never gets past its throw
UnconfiguredCallsStayEmpty ==
    \A i \in 1..Len(clientCalls) :
        ~clientCalls[i].configured => ThrewWithNothingSent(clientCalls[i])

\* a client called while its credential is missing has, when the call
\* comes back, thrown with no progress event and no request
ClientThrowsFirst ==
    Len(clientCalls') = Len(clientCalls) + 1 =>
        LET call == clientCalls'[Len(clientCalls')]
        IN  ClientLacksCredential(call.client) =>
                ~call.configured /\ ThrewWithNothingSent(call)

\* startAnalysis on an unconfigured backend shows 'settings' and makes no
\* client call; 'analyzing' is only entered with a configured backend
PanelOpensSettings ==
    /\ (op' = "UIController.startAnalysis" /\ BackendLacksCredential) =>
           currentState' = "settings" /\ clientCalls' = clientCalls
    /\ (currentState' = "analyzing" /\ currentState # "analyzing") =>
           ~BackendLacksCredential

\* C19: when no credential or model is configured, analysis fails at once
\* and nothing is sent: OpenRouterClient.analyzeTranscript and
\* OllamaClient.analyzeTranscript throw before any progress event and before
\* any network request, and UIController.startAnalysis moves to 'settings'
\* without calling the client or entering 'analyzing'.
C19_UnconfiguredFailsBeforeSending ==
    /\ []UnconfiguredCallsStayEmpty
    /\ [][ClientThrowsFirst /\ PanelOpensSettings]_vars

\* C19 witness: both clients have been called without their credential and
\* threw, and the panel, asked to analyze with an unconfigured backend
\* outside of 'settings', has just moved to 'settings' with no call of its
\* own on record.
C19_Witness ==
    /\ op = "UIController.startAnalysis"
    /\ BackendLacksCredential
    /\ currentState = "settings"
    /\ Len(clientCalls) = 2
    /\ clientCalls[1].client = "OpenRouterClient"
    /\ clientCalls[2].client = "OllamaClient"
    /\ \A i \in 1..2 : /\ clientCalls[i].caller = "direct"
                       /\ ThrewWithNothingSent(clientCalls[i])

(***************************************************************************)
(* C21 -- an analysis replaced by a later request.                         *)
(***************************************************************************)
\* r is still running and a later request has installed its own controller
Orphaned(r) ==
    /\ pc[r] = "chat"
    /\ \E later \in Reqs : later > r /\ chatCalls[later] # <<>>

CompleteCount(evs) == Cardinality({i \in 1..Len(evs) : evs[i].type = "complete"})

\* C21 as claimed: once a second POST /api/analyze has started while an
\* earlier one is still running, the earlier analysis writes no further
\* 'progress' event, no 'complete' event and no clips response.
C21_OrphanedAnalysisIsSilent ==
    [][\A r \in Reqs :
          Orphaned(r) =>
              /\ ProgressCount(events'[r]) = ProgressCount(events[r])
              /\ CompleteCount(events'[r]) = CompleteCount(events[r])
              /\ reply'[r].status # 200 \/ wantsStream[r]]_vars

(***************************************************************************)
(* Properties of the whole of analyzeTranscript (SpecPipeline).            *)
(***************************************************************************)
WellFormedClip(clip, options) ==
    /\ clip.endTime > clip.startTime
    /\ clip.startTime >= 0
    /\ clip.viralScore >= 0 /\ clip.viralScore <= 100
    /\ clip.endTime - clip.startTime >= options.minClipDuration
    /\ clip.endTime - clip.startTime <= options.maxClipDuration

\* C22: every clip of the list analyzeTranscript returns has
\* endTime > startTime, startTime >= 0, 0 <= viralScore <= 100 and a duration
\* in [minClipDuration, maxClipDuration], whatever the model answered.
C22_ReturnedClipsWellFormed ==
    op = "analyzeTranscript" =>
        \A i \in 1..Len(finalClips) : WellFormedClip(finalClips[i], opts)

\* C22 witness: of the clips the model reported over two or more chunks,
\* some were returned and some, not well formed, were not.
C22_Witness ==
    /\ op = "analyzeTranscript"
    /\ Len(chunksOut) >= 2
    /\ finalClips # <<>>
    /\ \E i \in 1..Len(pool) :
          /\ ~WellFormedClip(pool[i], opts)
          /\ pool[i].endTime <= pool[i].startTime
    /\ \E i \in 1..Len(pool) : pool[i].startTime < 0

(***************************************************************************)
(* C23 -- a clip's times and its segments (SpecSegments).                  *)
(***************************************************************************)
SegmentStartTimes(clip) ==
    {clip.segments[i].startTime : i \in 1..Len(clip.segments)}
SegmentEndTimes(clip) ==
    {clip.segments[i].endTime : i \in 1..Len(clip.segments)}

\* C23 as claimed: every clip OpenRouterClient.parseClipsFromResponse
\* produces has startTime equal to the least startTime of its segments and
\* endTime equal to the greatest endTime of its segments.
C23_TimesSpanSegments ==
    op = "OpenRouterClient.parseClipsFromResponse" =>
        \A i \in 1..Len(clientParsed.value) :
            LET clip == clientParsed.value[i] IN
            /\ clip.startTime = SetMin(SegmentStartTimes(clip))
            /\ clip.endTime = SetMax(SegmentEndTimes(clip))

(***************************************************************************)
(* C24 -- rank and removeOverlaps applied twice (SpecRank).                *)
(***************************************************************************)
\* analyzer.ts 106-112 without the filter and the slice
RankThenDedupe(clips) == removeOverlaps(SortByScore(clips))

\* C24: rank (the sort by viralScore, descending) followed by removeOverlaps,
\* applied to a list that is itself the output of rank followed by
\* removeOverlaps, returns the same clips in the same order.
C24_RankDedupeIdempotent ==
    /\ op # "none" =>
          RankThenDedupe(RankThenDedupe(pool)) = RankThenDedupe(pool)
    /\ op = "analyzeTranscript" => RankThenDedupe(finalClips) = finalClips

\* C24 witness: the result holds two clips of equal score, in the order of
\* the pool, and a third clip of the pool was dropped for overlapping.
C24_Witness ==
    /\ op = "analyzeTranscript"
    /\ Len(pool) = 3 /\ Len(finalClips) = 2
    /\ finalClips[1].viralScore = finalClips[2].viralScore
    /\ finalClips = <<pool[1], pool[2]>>
    /\ isValidClip(pool[3], opts)

(***************************************************************************)
(* C25 -- one chunk, one good clip (SpecPipeline).                         *)
(***************************************************************************)
FitsInOneChunk == JoinedLength(formatTranscript(segments)) <= AnalyzerMaxChars

\* chat() answered the first chunk with a JSON array of one clip
IsOneClipArray(answer) ==
    /\ ~answer.threw
    /\ Len(answer.response) = 3
    /\ answer.response[1] = LB /\ answer.response[3] = RB
    /\ answer.response[2].k = "object"
    /\ HasNumericFields(answer.response[2])

ReportedClip == chatScript[1].response[2]

ReportedDurationAndScoreFit ==
    LET d == ReportedClip.endTime.v - ReportedClip.startTime.v IN
    /\ d >= opts.minClipDuration /\ d <= opts.maxClipDuration
    /\ ReportedClip.viralScore.v >= 50

ReturnsTheReportedClip ==
    /\ Len(finalClips) = 1
    /\ finalClips[1].startTime = ReportedClip.startTime.v
    /\ finalClips[1].endTime = ReportedClip.endTime.v

\* the end-to-end scenario: three segments spanning 0 to 40 seconds and the
\* clip (5, 35, 92)
IsScenario ==
    /\ segments = <<TranscriptSegment(0, 10), TranscriptSegment(20, 10),
                    TranscriptSegment(40, 10)>>
    /\ chatScript = <<ChatReply(FALSE, <<LB, Obj(Num(5), Num(35), Num(92)), RB>>)>>

CallsForChunk(r, i) ==
    Cardinality({j \in 1..Len(chatCalls[r]) : chatCalls[r][j] = i})

\* the chat() calls of request r that have not settled
PendingCalls(r) == Len(chatCalls[r]) - Len(chatResults[r])

\* no chunk is asked for twice, a chunk is asked for only after every
\* chunk before it, at most one call is pending, and a finished analysis has
\* asked once for every chunk
OneCallPerChunk ==
    \A r \in Reqs :
        /\ \A i \in 0..(MaxChunks - 1) : CallsForChunk(r, i) <= 1
        /\ \A j \in 1..Len(chatCalls[r]) :
              \A i \in 0..(chatCalls[r][j] - 1) :
                  \E k \in 1..(j - 1) : chatCalls[r][k] = i
        /\ PendingCalls(r) \in {0, 1}
        /\ (pc[r] = "done" /\ reply[r].status # 400) =>
              \A i \in 0..(Len(chunks[r]) - 1) : CallsForChunk(r, i) = 1

\* a step issues at most one call of a request, for the chunk after the last
\* one asked for, and only when every earlier call of the request has settled
CallIssuedAfterSettle ==
    \A r \in Reqs :
        chatCalls'[r] # chatCalls[r] =>
            /\ PendingCalls(r) = 1 => Len(chatResults'[r]) = Len(chatCalls[r])
            /\ Len(chatCalls'[r]) = Len(chatCalls[r]) + 1
            /\ \A j \in 1..Len(chatCalls[r]) : chatCalls'[r][j] = chatCalls[r][j]
            /\ chatCalls'[r][Len(chatCalls'[r])] = Len(chatCalls[r])

\* C26: analyzeTranscript issues exactly one chat() call per chunk, in the
\* order of the chunk indexes, never starts the call of chunk i+1 before the
\* call of chunk i has returned or thrown, and does not ask again for a chunk
\* whose call failed.
C26_OneSequentialCallPerChunk ==
    []OneCallPerChunk /\ [][CallIssuedAfterSettle]_vars

\* C26 witness: a request of three chunks whose second call threw has
\* finished, with one call for each chunk.
C26_Witness ==
    \E r \in Reqs :
        /\ pc[r] = "done"
        /\ Len(chunks[r]) = 3
        /\ chatResults[r][2].threw
        /\ chatCalls[r] = <<0, 1, 2>>

(***************************************************************************)
(* OllamaClient.analyzeTranscript (part_008 223-470): one streaming call.  *)
(* A stream line is "token" (a message with content), "empty" (a message   *)
(* whose content is empty or missing, such as the line that ends the       *)
(* stream) or "malformed" (JSON.parse throws).  Times are milliseconds.    *)
(***************************************************************************)
ThrottleMs == 100
ColdStartMs == 10000

\* the lines one reader.read() can deliver, and the time since the last read
StreamLines ==
    {<<>>, <<"empty">>, <<"token">>, <<"malformed">>, <<"empty", "token">>,
     <<"token", "empty">>, <<"token", "token">>}
ReadDelays == {0, 150, 10001}

\* part_008 365: Math.min(80, 10 + (tokensReceived / 50)), as a fraction
progressPct(tokens) == Percent(Min(80 * 50, 10 * 50 + tokens), 50)

\* the locals the loop over the lines updates
StreamLocals(tokens, first, last, seen) ==
    [tokensReceived |-> tokens, firstTokenReceived |-> first,
     lastProgressUpdate |-> last, progressSeen |-> seen]

\* part_008 332-395: the body of the loop for one line, at currentTime
ProcessLine(st, line, currentTime) ==
    IF line = "malformed" THEN st
    ELSE LET tokens == st.tokensReceived + 1
             isFirst == ~st.firstTokenReceived /\ line = "token"
             seen10 == IF isFirst
                       THEN Append(st.progressSeen, Percent(10, 1))
                       ELSE st.progressSeen
             first == st.firstTokenReceived \/ isFirst
         IN IF currentTime - st.lastProgressUpdate > ThrottleMs
            THEN StreamLocals(tokens, first, currentTime,
                              Append(seen10, progressPct(tokens)))
            ELSE StreamLocals(tokens, first, st.lastProgressUpdate, seen10)

\* part_008 331: for (const line of lines)
RECURSIVE ProcessLines(_, _, _)
ProcessLines(st, lines, currentTime) ==
    IF lines = <<>> THEN st
    ELSE ProcessLines(ProcessLine(st, Head(lines), currentTime), Tail(lines),
                      currentTime)

StreamUnchanged ==
    UNCHANGED <<serverVars, op, opts, rankVars, validVars, parseVars, chunkVars,
                panelVars, pipeVars, warmVars, promptVars>>

InitStream ==
    /\ op = "none"
    /\ opts = DEFAULT_OPTIONS
    /\ ServerIdle /\ PanelIdle /\ PipeIdle /\ StreamIdle /\ WarmIdle /\ PromptIdle
    /\ RankIdle /\ ValidIdle /\ ParseIdle /\ ChunkIdle

\* part_008 224-266: no model selected throws before any progress; otherwise
\* progress 2 and 5, then the fetch
OllamaStart ==
    /\ StreamUnchanged
    /\ streamPc = "idle"
    /\ \E model \in ModelInputs :
          IF model = ""
          THEN streamPc' = "threw" /\ UNCHANGED progressSeen
          ELSE /\ streamPc' = "fetch"
               /\ progressSeen' = <<Percent(2, 1), Percent(5, 1)>>
    /\ UNCHANGED <<now, startTime, lastProgressUpdate, tokensReceived,
                   firstTokenReceived, coldStartWarningShown, streamReads>>

\* part_008 269-310: the fetch rejects or answers with an error status, and
\* the call throws; or it answers, progress 8, and the locals of the stream
\* loop are set
FetchResponds ==
    /\ StreamUnchanged
    /\ streamPc = "fetch"
    /\ \E ok \in BOOLEAN :
          IF ok
          THEN /\ streamPc' = "stream"
               /\ progressSeen' = Append(progressSeen, Percent(8, 1))
               /\ startTime' = now
               /\ lastProgressUpdate' = now
          ELSE /\ streamPc' = "threw"
               /\ UNCHANGED <<progressSeen, startTime, lastProgressUpdate>>
    /\ UNCHANGED <<now, tokensReceived, firstTokenReceived,
                   coldStartWarningShown, streamReads>>

\* part_008 312-396: one reader.read() that returns data, delay milliseconds
\* after the last one: the cold-start warning, then the lines.  The loop over
\* the lines of one read runs within the same millisecond.
ReadData ==
    /\ StreamUnchanged
    /\ streamPc = "stream"
    /\ streamReads < MaxStreamReads
    /\ \E delay \in ReadDelays, lines \in StreamLines :
          LET t == now + delay
              warn == /\ ~firstTokenReceived
                      /\ ~coldStartWarningShown
                      /\ t - startTime > ColdStartMs
              seen == IF warn THEN Append(progressSeen, Percent(8, 1))
                      ELSE progressSeen
              st == ProcessLines(StreamLocals(tokensReceived,
                                              firstTokenReceived,
                                              lastProgressUpdate, seen),
                                 lines, t)
          IN /\ now' = t
             /\ coldStartWarningShown' = (coldStartWarningShown \/ warn)
             /\ tokensReceived' = st.tokensReceived
             /\ firstTokenReceived' = st.firstTokenReceived
             /\ lastProgressUpdate' = st.lastProgressUpdate
             /\ progressSeen' = st.progressSeen
    /\ streamReads' = streamReads + 1
    /\ UNCHANGED <<streamPc, startTime>>

\* part_008 313-314 and 399-455: the stream is done: progress 85; content
\* with nothing to parse throws; otherwise 90 and 100, and a call that found
\* no clip throws
ReadDone ==
    /\ StreamUnchanged
    /\ streamPc = "stream"
    /\ \E outcome \in {"noContent", "noClips", "clips"} :
          LET seen85 == Append(progressSeen, Percent(85, 1))
          IN IF outcome = "noContent"
             THEN streamPc' = "threw" /\ progressSeen' = seen85
             ELSE /\ streamPc' = IF outcome = "clips" THEN "done" ELSE "threw"
                  /\ progressSeen' =
                        seen85 \o <<Percent(90, 1), Percent(100, 1)>>
    /\ UNCHANGED <<now, startTime, lastProgressUpdate, tokensReceived,
                   firstTokenReceived, coldStartWarningShown, streamReads>>

NextStream == OllamaStart \/ FetchResponds \/ ReadData \/ ReadDone

SpecStream == InitStream /\ [][NextStream]_vars

\* C27: the progress values the streaming OllamaClient.analyzeTranscript
\* passes to onProgress never decrease, for every sequence of stream lines
\* (lines with empty content included) and arrival times.
C27_StreamProgressNeverDecreases ==
    \A i \in 1..(Len(progressSeen) - 1) :
        PercentLeq(progressSeen[i], progressSeen[i + 1])

(***************************************************************************)
(* The cancellable handle of the server (Spec).                            *)
(***************************************************************************)
\* request r is between its start and its response
Running(r) == pc[r] = "chat"

\* while a request runs, currentAnalysis is the controller of a running one
RunningHasHandle ==
    (\E r \in Reqs : Running(r)) =>
        (currentAnalysis # 0 /\ Running(currentAnalysis))

\* a step of POST /api/analyze/cancel that shows in the state: with a request
\* running it answers cancelled: true and a running request is aborted after
\* it, and it aborts no request that has finished
CancelStepAbortsRunning ==
    (pc' = pc /\ (cancelReply' # cancelReply \/ aborted' # aborted)) =>
        /\ (\E r \in Reqs : Running(r)) =>
              /\ cancelReply' = "cancelled: true"
              /\ \E r \in Reqs : Running(r) /\ aborted'[r]
        /\ \A r \in Reqs : (aborted'[r] /\ ~aborted[r]) => Running(r)

\* C28: whenever a POST /api/analyze request is running, cancel answers
\* cancelled: true and aborts a running request; the completion of one of two
\* overlapping requests leaves the other with a cancellable handle; and
\* cancel never aborts a request that has finished.
C28_RunningRequestIsCancellable ==
    []RunningHasHandle /\ [][CancelStepAbortsRunning]_vars

(***************************************************************************)
(* The analysis, its cancellation and the review that follows it           *)
(* (ui-controller.js 647-766, 840-1016), for a panel whose backend is      *)
(* configured: the handlers of the setup, analyzing, review, generate and  *)
(* error states, without those that open the settings.                     *)
(***************************************************************************)
InitCancel ==
    /\ ServerIdle /\ RankIdle /\ ValidIdle /\ ParseIdle /\ ChunkIdle
    /\ PipeIdle /\ StreamIdle /\ PromptIdle
    /\ op = "none"
    /\ opts = DEFAULT_OPTIONS
    /\ \E backend \in Backends : UIController_init(backend, StoredKey, StoredModel)

\* finishReview (966-985): the approved clips are kept; with none approved
\* the review starts again, otherwise the panel shows 'generate'
UIController_finishReview(clips) ==
    LET approved == SelectSeq(clips, LAMBDA c : c.decision = "approved")
    IN  /\ approvedClips' = approved
        /\ IF approved = <<>>
           THEN currentClipIndex' = 0 /\ UNCHANGED currentState
           ELSE currentState' = "generate" /\ UNCHANGED currentClipIndex

\* rejectClip, approveClip, skipClip (840-865) and nextClip (903-910)
DecideClip ==
    /\ currentState = "review"
    /\ \E decision \in {"approved", "rejected", "skipped"} :
          LET clips == [viralClips EXCEPT
                          ![currentClipIndex + 1].decision = decision]
          IN  /\ viralClips' = clips
              /\ IF currentClipIndex < Len(clips) - 1
                 THEN /\ currentClipIndex' = currentClipIndex + 1
                      /\ UNCHANGED <<approvedClips, currentState>>
                 ELSE UIController_finishReview(clips)
    /\ op' = "none"
    /\ UNCHANGED <<settingsPending, clientCalls>>
    /\ ConfigUnchanged /\ OthersUnchanged /\ UNCHANGED warmVars

\* #back-to-review (190): goBackToReview (1013-1017)
ClickBackToReview ==
    /\ currentState = "generate"
    /\ currentClipIndex' = 0
    /\ currentState' = "review"
    /\ op' = "none"
    /\ UNCHANGED <<settingsPending, clientCalls, viralClips, approvedClips>>
    /\ ConfigUnchanged /\ OthersUnchanged /\ UNCHANGED warmVars

NextCancel ==
    \/ ClickAnalyze \/ FetchSettles \/ ClickCancel \/ ClickBackToSetup
    \/ DecideClip \/ ClickBackToReview

SpecCancel == InitCancel /\ [][NextCancel]_vars

\* the panel's call i is pending and cancelAnalysis ran after it began: the
\* panel no longer shows 'analyzing', or shows it for a later call
CancelledCall(i) ==
    /\ clientCalls[i].caller = "panel"
    /\ clientCalls[i].status = "pending"
    /\ \/ currentState # "analyzing"
       \/ \E j \in (i + 1)..Len(clientCalls) : clientCalls[j].caller = "panel"

\* C29: after cancelAnalysis has returned the panel to 'setup', the later
\* completion or failure of the cancelled analysis changes neither
\* currentState nor viralClips, approvedClips or currentClipIndex.
C29_CancelledAnalysisIsInert ==
    [][\A i \in 1..Len(clientCalls) :
          (CancelledCall(i) /\ clientCalls'[i].status # "pending") =>
              UNCHANGED <<currentState, viralClips, approvedClips,
                          currentClipIndex>>]_vars

(***************************************************************************)
(* Clips reported with the timestamps of the chunk text (SpecPipeline).    *)
(***************************************************************************)
\* the seconds of the labels printed in the text of chunk k
LabelsOfChunk(k) ==
    {LabelSeconds(chunksOut[k].text[j]) :
        j \in {i \in 1..Len(chunksOut[k].text) : timeMatch(chunksOut[k].text[i])}}

\* chat() answered chunk k with one clip that starts and ends at labels of
\* the chunk's text, of a duration and a score the ranking accepts, and
\* every other chunk with no clip
OnlyChunkReportsLabelTimes(k) ==
    /\ IsOneClipArray(chatScript[k])
    /\ LET c == chatScript[k].response[2]
           d == c.endTime.v - c.startTime.v
       IN  /\ c.startTime.v \in LabelsOfChunk(k)
           /\ c.endTime.v \in LabelsOfChunk(k)
           /\ d >= opts.minClipDuration /\ d <= opts.maxClipDuration
           /\ c.viralScore.v >= 50
    /\ opts.targetCount >= 1
    /\ \A j \in 1..Len(chatScript) :
          j # k => (chatScript[j].threw \/ chatScript[j].response = <<LB, RB>>)

\* C30: a clip the model reports with the absolute timestamps printed in the
\* chunk text it was given is returned by analyzeTranscript with the same
\* startTime and endTime, in whichever chunk of the transcript it was found.
C30_LabelTimesReturnedUnchanged ==
    op = "analyzeTranscript" =>
        \A k \in 1..Len(chunksOut) :
            OnlyChunkReportsLabelTimes(k) =>
                /\ Len(finalClips) = 1
                /\ finalClips[1].startTime = chatScript[k].response[2].startTime.v
                /\ finalClips[1].endTime = chatScript[k].response[2].endTime.v

(***************************************************************************)
(* Keep-warm mode (ui-controller.js 341-369, 402-435).  The power button   *)
(* belongs to the model status indicator, which selectBackend shows for    *)
(* 'ollama' only.  OllamaClient.keepWarm and unloadModel (part_008         *)
(* 109-150) never reject.  MaxSuspended caps the toggles waiting at their  *)
(* await, MaxTimers the timers set and not cleared.                        *)
(***************************************************************************)
InitKeepWarm ==
    /\ ServerIdle /\ RankIdle /\ ValidIdle /\ ParseIdle /\ ChunkIdle
    /\ PipeIdle /\ StreamIdle /\ PromptIdle
    /\ op = "none"
    /\ opts = DEFAULT_OPTIONS
    /\ \E backend \in Backends, key \in {"", StoredKey},
          model \in {"", StoredModel} :
          UIController_init(backend, key, model)

WarmOthersUnchanged ==
    /\ UNCHANGED <<op, currentState, settingsPending, clientCalls, reviewVars>>
    /\ ConfigUnchanged /\ OthersUnchanged

\* #model-power-btn (231): toggleKeepWarm up to its await (402-422)
ClickModelPower ==
    /\ currentBackend = "ollama"
    /\ suspendedToggles.activate + suspendedToggles.deactivate < MaxSuspended
    /\ IF isKeepWarmActive
       THEN /\ keepWarmInterval' = FALSE
            /\ liveTimers' = IF keepWarmInterval THEN liveTimers - 1
                                                 ELSE liveTimers
            /\ isKeepWarmActive' = FALSE
            /\ suspendedToggles' =
                  [suspendedToggles EXCEPT !.deactivate = @ + 1]
       ELSE /\ isKeepWarmActive' = TRUE
            /\ suspendedToggles' =
                  [suspendedToggles EXCEPT !.activate = @ + 1]
            /\ UNCHANGED <<keepWarmInterval, liveTimers>>
    /\ stopRan' = FALSE
    /\ UNCHANGED modelCheckInterval
    /\ WarmOthersUnchanged

\* toggleKeepWarm after OllamaClient.keepWarm() (425-434): the timer is set
KeepWarmReturns ==
    /\ suspendedToggles.activate > 0
    /\ liveTimers < MaxTimers
    /\ suspendedToggles' = [suspendedToggles EXCEPT !.activate = @ - 1]
    /\ keepWarmInterval' = TRUE
    /\ liveTimers' = liveTimers + 1
    /\ UNCHANGED <<isKeepWarmActive, modelCheckInterval, stopRan>>
    /\ WarmOthersUnchanged

\* toggleKeepWarm after OllamaClient.unloadModel() (414-415, 432-434)
UnloadReturns ==
    /\ suspendedToggles.deactivate > 0
    /\ suspendedToggles' = [suspendedToggles EXCEPT !.deactivate = @ - 1]
    /\ UNCHANGED <<keepWarmInterval, liveTimers, isKeepWarmActive,
                   modelCheckInterval, stopRan>>
    /\ WarmOthersUnchanged

NextKeepWarm ==
    \/ ClickModelPower \/ KeepWarmReturns \/ UnloadReturns
    \/ SelectBackend \/ ClickSettings \/ ClickBackFromSettings

SpecKeepWarm == InitKeepWarm /\ [][NextKeepWarm]_vars

NoToggleSuspended ==
    suspendedToggles.activate = 0 /\ suspendedToggles.deactivate = 0

\* C31: whenever no toggleKeepWarm call is suspended at an await, a keep-warm
\* timer is scheduled (_keepWarmInterval is non-null) exactly when
\* _isKeepWarmActive is true; and once stopModelStatusPolling has run and the
\* pending toggles have finished, no keep-warm timer remains scheduled.
C31_KeepWarmTimerMatchesFlag ==
    NoToggleSuspended =>
        /\ keepWarmInterval <=> isKeepWarmActive
        /\ liveTimers = (IF isKeepWarmActive THEN 1 ELSE 0)
        /\ stopRan => liveTimers = 0

(***************************************************************************)
(* buildUserPrompt (prompts/viral-detection.ts 25-85).  A string is a      *)
(* sequence of tokens: a piece of the template's fixed text, a placeholder *)
(* such as {targetCount}, a word, a number printed by String(), or one of  *)
(* the patterns that String.prototype.replace expands in its replacement   *)
(* argument: the match, a dollar sign, the text before the match and the   *)
(* text after it.                                                          *)
(***************************************************************************)
PromptToken(kind, name, v) == [kind |-> kind, name |-> name, v |-> v]
Literal(n) == PromptToken("literal", "", n)
Placeholder(name) == PromptToken("placeholder", name, 0)
Word(name) == PromptToken("word", name, 0)
Number(n) == PromptToken("number", "", n)
Dollar(name) == PromptToken("dollar", name, 0)

PlaceholderNames ==
    {"transcript", "targetCount", "minDuration", "maxDuration", "contentType"}

\* USER_PROMPT_TEMPLATE (25-68): the TRANSCRIPT section, then the
\* REQUIREMENTS section, then the description of the answer
USER_PROMPT_TEMPLATE ==
    <<Literal(1), Placeholder("transcript"), Literal(2),
      Placeholder("targetCount"), Literal(3), Placeholder("minDuration"),
      Literal(4), Placeholder("maxDuration"), Literal(5),
      Placeholder("contentType"), Literal(6)>>

\* the index of the first occurrence of a token, 0 when there is none
RECURSIVE IndexFrom(_, _, _)
IndexFrom(str, tok, i) ==
    IF i > Len(str) THEN 0
    ELSE IF str[i] = tok THEN i
    ELSE IndexFrom(str, tok, i + 1)

indexOf(str, tok) == IndexFrom(str, tok, 1)

\* the replacement string of String.prototype.replace with its patterns
\* expanded
RECURSIVE ExpandReplacement(_, _, _, _)
ExpandReplacement(replacement, before, match, after) ==
    IF replacement = <<>> THEN <<>>
    ELSE LET tok == Head(replacement)
             out == IF tok.kind # "dollar" THEN <<tok>>
                    ELSE IF tok.name = "match" THEN <<match>>
                    ELSE IF tok.name = "dollar" THEN <<Word("$")>>
                    ELSE IF tok.name = "before" THEN before
                    ELSE after
         IN  out \o ExpandReplacement(Tail(replacement), before, match, after)

\* str.replace(pattern, replacement) with a string pattern: the first
\* occurrence only
replace(str, pattern, replacement) ==
    LET i == indexOf(str, pattern)
        before == SubSeq(str, 1, i - 1)
        after == SubSeq(str, i + 1, Len(str))
    IN  IF i = 0 THEN str
        ELSE before \o ExpandReplacement(replacement, before, pattern, after)
                    \o after

\* buildUserPrompt (70-85)
buildUserPrompt(text, options) ==
    LET r1 == replace(USER_PROMPT_TEMPLATE, Placeholder("transcript"), text)
        r2 == replace(r1, Placeholder("targetCount"),
                      <<Number(options.targetCount)>>)
        r3 == replace(r2, Placeholder("minDuration"),
                      <<Number(options.minDuration)>>)
        r4 == replace(r3, Placeholder("maxDuration"),
                      <<Number(options.maxDuration)>>)
    IN  replace(r4, Placeholder("contentType"), options.contentType)

\* the tokens of a transcript text
TranscriptTokens ==
    {Word("hello")} \cup {Placeholder(n) : n \in PlaceholderNames}
    \cup {Dollar(n) : n \in {"match", "dollar", "before", "after"}}

RECURSIVE TextsUpTo(_)
TextsUpTo(n) ==
    IF n = 0 THEN {<<>>}
    ELSE LET shorter == TextsUpTo(n - 1)
         IN  shorter \cup {Append(p, t) : p \in {q \in shorter : Len(q) = n - 1},
                                           t \in TranscriptTokens}

\* analyzer.ts 66-71: the options analyzeTranscript passes
PromptOptionsOf(options, contentType) ==
    [targetCount |-> options.targetCount + 2,
     minDuration |-> options.minClipDuration,
     maxDuration |-> options.maxClipDuration,
     contentType |-> contentType]

PromptInputs ==
    {[transcript |-> text, options |-> PromptOptionsOf(o, <<Word(c)>>)] :
        text \in TextsUpTo(MaxPromptLen), o \in PipeOptions,
        c \in {"general", "podcast"}}

InitPrompt ==
    /\ op = "none"
    /\ opts = DEFAULT_OPTIONS
    /\ ServerIdle /\ PanelIdle /\ PipeIdle /\ StreamIdle /\ WarmIdle
    /\ RankIdle /\ ValidIdle /\ ParseIdle /\ ChunkIdle
    /\ promptInput \in PromptInputs
    /\ userPrompt = <<>>

ApplyBuildUserPrompt ==
    /\ op = "none"
    /\ op' = "buildUserPrompt"
    /\ userPrompt' = buildUserPrompt(promptInput.transcript, promptInput.options)
    /\ UNCHANGED <<serverVars, opts, rankVars, validVars, parseVars, chunkVars,
                   panelVars, pipeVars, streamVars, warmVars, promptInput>>

NextPrompt == ApplyBuildUserPrompt

SpecPrompt == InitPrompt /\ [][NextPrompt]_vars

\* the template with the transcript in the TRANSCRIPT section and the four
\* values in the REQUIREMENTS section
PromptWithValues(text, options) ==
    <<Literal(1)>> \o text \o
    <<Literal(2), Number(options.targetCount), Literal(3),
      Number(options.minDuration), Literal(4), Number(options.maxDuration),
      Literal(5)>> \o options.contentType \o <<Literal(6)>>

\* C32: buildUserPrompt returns a prompt with the transcript text verbatim in
\* the TRANSCRIPT section and the given targetCount, minDuration,
\* maxDuration and contentType in the REQUIREMENTS section, for every
\* transcript text, text holding {targetCount} and the like included.
C32_PromptHoldsTranscriptAndValues ==
    op = "buildUserPrompt" =>
        userPrompt = PromptWithValues(promptInput.transcript, promptInput.options)

(***************************************************************************)
(* Elements that are not usable clips (SpecParse).                         *)
(***************************************************************************)
\* an array element that is an object with numeric startTime, endTime and
\* viralScore
UsableElement(elem) == elem.k = "object" /\ HasNumericFields(elem)

\* the response holds a JSON array, and clips are its usable elements, in
\* their order, each with its times moved by offset
KeepsUsableElements(resp, clips, offset) ==
    LET m == jsonMatch(resp)
        p == JSON_parse(m)
    IN  (m # <<>> /\ p.type # "throw") =>
            LET usable == SelectSeq(p.value, UsableElement)
            IN  /\ Len(clips) = Len(usable)
                /\ \A i \in 1..Len(usable) :
                      /\ clips[i].startTime = usable[i].startTime.v + offset
                      /\ clips[i].endTime = usable[i].endTime.v + offset

\* C33: in parseClipsFromResponse an array element that is not a usable
\* clip (null or another non-object, or an object one of whose three fields
\* is not numeric) is the only one discarded: every valid element of the
\* array is still returned, in its original order.
C33_OnlyUnusableElementsDiscarded ==
    /\ op = "parseClipsFromResponse" =>
          KeepsUsableElements(response, parsed.value, timeOffset)
    /\ op = "OpenRouterClient.parseClipsFromResponse" =>
          KeepsUsableElements(response, clientParsed.value, 0)

(***************************************************************************)
(* Analyses of the panel in flight at the same time (SpecCancel).          *)
(***************************************************************************)
\* the analyzeTranscript calls startAnalysis made that have not settled
PanelCallsInFlight ==
    {i \in 1..Len(clientCalls) :
        clientCalls[i].caller = "panel" /\ clientCalls[i].status = "pending"}

\* the panel has begun an analysis after call i
HasNewerAnalysis(i) ==
    \E j \in (i + 1)..Len(clientCalls) : clientCalls[j].caller = "panel"

\* the completion of an analysis older than another one of the panel leaves
\* viralClips and the review state as they are
OlderResultIsDropped ==
    \A i \in PanelCallsInFlight :
        (HasNewerAnalysis(i) /\ clientCalls'[i].status # "pending") =>
            UNCHANGED <<viralClips, approvedClips, currentClipIndex>>

\* C34: at most one analyzeTranscript call of UIController is in flight at
\* any time, so that the result of an older analysis never replaces
\* viralClips or resets the review of a newer one.
C34_OneAnalysisInFlight ==
    [](Cardinality(PanelCallsInFlight) <= 1) /\ [][OlderResultIsDropped]_vars

(***************************************************************************)
(* Properties of the event stream of POST /api/analyze (Spec).             *)
(***************************************************************************)
TerminalEvents(evs) ==
    {i \in 1..Len(evs) : evs[i].type \in {"complete", "error"}}

\* a streaming request that passed the validation and was answered
StreamAnswered(r) == pc[r] = "done" /\ wantsStream[r] /\ reply[r].status # 400

\* C35: a streaming POST /api/analyze request that passes validation writes
\* exactly one terminal event ('complete' or 'error'); that event is the last
\* of the stream, so every 'progress' event of the request precedes it; no
\* terminal event is written while the request runs and nothing is written
\* once it was answered.
C35_OneTerminalEventLast ==
    /\ [](\A r \in Reqs :
            /\ StreamAnswered(r) =>
                  /\ Cardinality(TerminalEvents(events[r])) = 1
                  /\ TerminalEvents(events[r]) = {Len(events[r])}
                  /\ \A i \in 1..(Len(events[r]) - 1) :
                        events[r][i].type = "progress"
            /\ pc[r] # "done" => TerminalEvents(events[r]) = {})
    /\ [][\A r \in Reqs : pc[r] = "done" => events'[r] = events[r]]_vars

\* C35 witness: both kinds of stream have ended while another request was
\* being served: one with 'complete' after the progress events of MaxChunks
\* chunks, 95 and 100, and one whose only event is the 'error' of the catch
\* block.
C35_Witness ==
    \E r, s \in Reqs :
        /\ StreamAnswered(r) /\ StreamAnswered(s)
        /\ Len(events[r]) = MaxChunks + 3
        /\ events[r][Len(events[r])].type = "complete"
        /\ events[s] = <<ErrorEvent("formatTranscript threw")>>

\* C36 as claimed: every chunk chunkTranscript returns has
\* 0 <= startOffset <= endOffset, so the offset analyzeTranscript adds to the
\* clips of a chunk is never negative.
C36_ChunkOffsetsOrdered ==
    op = "chunkTranscript" =>
        \A k \in 1..Len(chunksOut) :
            /\ 0 <= chunksOut[k].startOffset
            /\ chunksOut[k].startOffset <= chunksOut[k].endOffset

====
